---- MODULE Spec2Model ----
(***************************************************************************)
(* Model of embassy-async-button: the click / long-press engine            *)
(* (src/src/lib.rs, Button::next_event) driven by one of its four drivers  *)
(* (GPIO pin, threshold ADC, matrix cell, keymask bit), with time as an    *)
(* integer clock.  A scan loop samples the signal once per clock unit, at  *)
(* any point of it, so a bus-fed driver reports a physical edge with a     *)
(* delay of up to one unit.                                                *)
(***************************************************************************)
EXTENDS Integers, Sequences, FiniteSets, TLC

VARIABLES
    now,          \* embassy_time::Instant::now()
    kind,         \* which AsyncButtonDriver implementation feeds the engine
    created,      \* Button::new has run (the adapter and the engine exist)
    state,        \* Button.state
    config,       \* Button.config
    polling,      \* a next_event() future is alive and being polled
    returned,     \* what the last next_event() returned (NoEvent while one is pending)
    pinHigh,      \* GPIO: electrical level of the pin
    active_level, \* GPIO: GpioButton.active_level
    voltage,      \* ADC, keypad: the analog value AsyncAdc::read returns
    grid,         \* matrix: physical level of every cell (TRUE: contact closed)
    last_states,  \* MatrixDriver.last_states
    scan_pos,     \* MatrixDriver::run: cells of the current sweep already read
    last_mask,    \* KeypadDriver::run: its local last_mask
    parked,       \* the message a scan loop is suspended on in publish().await
    scanned,      \* the scan loop took its sample of this instant
    sub,          \* the adapter's subscriber: published messages not yet consumed
    last_known_mask, \* KeypadButton.last_known_mask
    sampled,      \* history: the key was pressed in the scan loop's last sample
    confirmed,    \* history: presses confirmed since the engine last left Idle
    moved,        \* history: the physical signal already changed at this instant
    used,         \* history: physical changes and caller operations so far, and the last operation
    limits,       \* the bounds this behaviour runs under
    hist,         \* history of the current press sequence: edges and events
    lab,          \* a function of the crate applied on its own: its inputs and its result
    filter,       \* AdcDriver.filter: the RawFilter or a MedianFilter with its window
    peer,         \* the other adapters the factory was asked for
    trace,        \* history of the bus: what was read, published and consumed
    build,        \* how the crate was compiled: with or without overflow checks
    twin          \* a second button on the same key whose caller never drops a call

physVars == <<pinHigh, voltage, grid>>
scanVars == <<last_states, scan_pos, last_mask, parked, scanned, sampled>>
busVars == <<sub, last_known_mask>>
engineVars == <<state, config, polling, returned, confirmed>>
frameVars == <<kind, active_level, limits, lab, build, twin>>
fixedVars == <<kind, active_level, limits, lab, build, filter, peer, trace, twin>>
setupVars == <<kind, active_level, limits, lab, build, filter, peer, trace>>

vars ==
    <<now, kind, created, state, config, polling, returned, pinHigh, active_level, voltage,
      grid, last_states, scan_pos, last_mask, parked, scanned, sub,
      last_known_mask, sampled, confirmed, moved, used, limits, hist, lab,
      filter, peer, trace, build, twin>>

(***************************************************************************)
(* Bounds of the model: the clock's horizon and the number of physical     *)
(* changes, for the engine on a GPIO pin (Max..), for the four drivers     *)
(* side by side (Bus..) and for the caller's operations (Ctl..).           *)
(***************************************************************************)
MaxTime == 14
MaxEdges == 6
BusMaxTime == 9
BusMaxEdges == 3
CtlMaxTime == 6
CtlMaxEdges == 2
CtlMaxOps == 1
\* A GPIO button late in a long multi-click sequence (Many..).
ManyMaxTime == 8
ManyMaxEdges == 4
\* A GPIO button whose pin waits may fail (Fault..).
FaultMaxTime == 6
FaultMaxEdges == 2
FaultMaxOps == 1
PaceMaxPasses == 4
DecodeMaxPasses == 3
TwinMaxTime == 8
TwinMaxEdges == 2
TwinMaxOps == 1
\* A scan loop with one adapter (Scan..) and with several (Peer..).
ScanMaxTime == 5
ScanMaxEdges == 2
PeerMaxTime == 4
PeerMaxEdges == 2
\* A scan loop and as many adapters as the channel has slots, and one more.
SlotMaxTime == 4
SlotMaxEdges == 1
\* Functions applied on their own: the largest sample, the longest queue of
\* bus messages handed to a wait.
MaxSample == 3
MaxQueue == 3
\* The largest window of a median filter and the number of samples fed to it.
MaxN == 3
MaxCalls == 6

(***************************************************************************)
(* ButtonConfig values, in clock units.  The fields are public and carry   *)
(* no validity constraint, so an ordering other than the default one       *)
(* (debounce < hold interval < window < long press) is included.           *)
(***************************************************************************)
CfgDefault ==
    [debounce |-> 2, multi_click_window |-> 3, long_press_time |-> 5,
     long_press_hold_interval |-> 2]
CfgFast ==
    [debounce |-> 1, multi_click_window |-> 3, long_press_time |-> 3,
     long_press_hold_interval |-> 2]
CfgShortWindow ==
    [debounce |-> 3, multi_click_window |-> 1, long_press_time |-> 5,
     long_press_hold_interval |-> 1]
Configs == {CfgDefault, CfgFast, CfgShortWindow}

(***************************************************************************)
(* ButtonState: one record shape for the six variants; a variant leaves    *)
(* the fields it does not have at 0.                                       *)
(***************************************************************************)
Idle ==
    [tag |-> "Idle", count |-> 0, start_time |-> 0, release_start |-> 0]
PressDebouncing(count, start_time) ==
    [tag |-> "PressDebouncing", count |-> count, start_time |-> start_time,
     release_start |-> 0]
Pressed(start_time, count) ==
    [tag |-> "Pressed", count |-> count, start_time |-> start_time,
     release_start |-> 0]
ReleaseDebouncing(count, press_start, release_start) ==
    [tag |-> "ReleaseDebouncing", count |-> count, start_time |-> press_start,
     release_start |-> release_start]
WaitingForMultiClick(count, last_release) ==
    [tag |-> "WaitingForMultiClick", count |-> count, start_time |-> 0,
     release_start |-> last_release]
LongPress(start_time) ==
    [tag |-> "LongPress", count |-> 0, start_time |-> start_time,
     release_start |-> 0]

(***************************************************************************)
(* ButtonEvent; NoEvent stands for "the loop goes round again without      *)
(* returning".                                                             *)
(***************************************************************************)
NoEvent == [name |-> "None", count |-> 0]
Click == [name |-> "Click", count |-> 0]
DoubleClick == [name |-> "DoubleClick", count |-> 0]
MultipleClick(count) == [name |-> "MultipleClick", count |-> count]
LongPressStart == [name |-> "LongPressStart", count |-> 0]
LongPressHold == [name |-> "LongPressHold", count |-> 0]
LongPressRelease == [name |-> "LongPressRelease", count |-> 0]

\* count is a u8: count + 1 is computed in 8 bits.  Compiled without
\* overflow checks (the release profile) the sum wraps; with them (the dev
\* profile) count + 1 panics when count is 255.
CountModulus == 256
ReleaseBuild == [overflow_checks |-> FALSE]
DevBuild == [overflow_checks |-> TRUE]
Overflowed == [name |-> "Panic", count |-> 0]
CountPlusOneStuck(count) == count

CountPlusOne(count) == (count + 1) % CountModulus

\* The edge-wait raced in each state: wait_for_press (TRUE) or wait_for_release.
WaitsForPressInLongPress(s) ==
    s.tag \in {"Idle", "ReleaseDebouncing", "WaitingForMultiClick", "LongPress"}

WaitsForPress(s) == s.tag \in {"Idle", "ReleaseDebouncing", "WaitingForMultiClick"}

\* Idle races nothing against its edge-wait; every other state arms Timer::at.
HasTimerNotPressed(s) == s.tag \notin {"Idle", "Pressed"}

HasTimer(s) == s.tag # "Idle"

\* The instant handed to Timer::at in state s, from the config as it is now.
DeadlineAtOnce(s, cfg) == 0

Deadline(s, cfg) ==
    CASE s.tag = "PressDebouncing" -> s.start_time + cfg.debounce
      [] s.tag = "Pressed" -> s.start_time + cfg.long_press_time
      [] s.tag = "ReleaseDebouncing" -> s.release_start + cfg.debounce
      [] s.tag = "WaitingForMultiClick" -> s.release_start + cfg.multi_click_window
      [] s.tag = "LongPress" -> s.start_time + cfg.long_press_hold_interval
      [] OTHER -> 0

TimerReadyLate(s, t, cfg) == HasTimer(s) /\ t > Deadline(s, cfg)

TimerReady(s, t, cfg) == HasTimer(s) /\ t >= Deadline(s, cfg)

\* The event returned when the multi-click window closes.
ClickEventAlwaysClick(count) == IF count = 0 THEN NoEvent ELSE Click

ClickEvent(count) ==
    CASE count = 0 -> NoEvent
      [] count = 1 -> Click
      [] count = 2 -> DoubleClick
      [] OTHER -> MultipleClick(count)

\* (variant: a press during the release debounce starts the press anew)
OnEdgeRestarting(s, t) ==
    CASE s.tag = "Idle" ->
            [state |-> PressDebouncing(0, t), event |-> NoEvent]
      [] s.tag = "PressDebouncing" ->
            [state |-> Idle, event |-> NoEvent]
      [] s.tag = "Pressed" ->
            [state |-> ReleaseDebouncing(s.count, s.start_time, t), event |-> NoEvent]
      [] s.tag = "ReleaseDebouncing" ->
            [state |-> Pressed(t, s.count), event |-> NoEvent]
      [] s.tag = "WaitingForMultiClick" ->
            [state |-> PressDebouncing(s.count, t), event |-> NoEvent]
      [] OTHER ->
            [state |-> Idle, event |-> LongPressRelease]

\* Either::First: the edge-wait resolved at instant t.
OnEdge(s, t) ==
    CASE s.tag = "Idle" ->
            [state |-> PressDebouncing(0, t), event |-> NoEvent]
      [] s.tag = "PressDebouncing" ->
            [state |-> Idle, event |-> NoEvent]
      [] s.tag = "Pressed" ->
            [state |-> ReleaseDebouncing(s.count, s.start_time, t), event |-> NoEvent]
      [] s.tag = "ReleaseDebouncing" ->
            [state |-> Pressed(s.start_time, s.count), event |-> NoEvent]
      [] s.tag = "WaitingForMultiClick" ->
            [state |-> PressDebouncing(s.count, t), event |-> NoEvent]
      [] OTHER ->
            [state |-> Idle, event |-> LongPressRelease]

\* (variant: the multi-click window starts when the release is confirmed)
OnTimerFromConfirmation(s, t, cfg) ==
    CASE s.tag = "PressDebouncing" ->
            [state |-> Pressed(t, CountPlusOne(s.count)), event |-> NoEvent]
      [] s.tag = "Pressed" ->
            [state |-> LongPress(s.start_time), event |-> LongPressStart]
      [] s.tag = "ReleaseDebouncing" ->
            [state |-> WaitingForMultiClick(s.count, t), event |-> NoEvent]
      [] s.tag = "WaitingForMultiClick" ->
            [state |-> Idle, event |-> ClickEvent(s.count)]
      [] OTHER ->
            [state |-> LongPress(s.start_time + cfg.long_press_hold_interval),
             event |-> LongPressHold]

\* Either::Second: the timer resolved (the edge-wait was polled first and is
\* still pending) at instant t.
OnTimer(s, t, cfg) ==
    CASE s.tag = "PressDebouncing" ->
            [state |-> Pressed(t, CountPlusOne(s.count)), event |-> NoEvent]
      [] s.tag = "Pressed" ->
            [state |-> LongPress(s.start_time), event |-> LongPressStart]
      [] s.tag = "ReleaseDebouncing" ->
            [state |-> WaitingForMultiClick(s.count, s.release_start), event |-> NoEvent]
      [] s.tag = "WaitingForMultiClick" ->
            [state |-> Idle, event |-> ClickEvent(s.count)]
      [] OTHER ->
            [state |-> LongPress(s.start_time + cfg.long_press_hold_interval),
             event |-> LongPressHold]

\* One pass of the loop of next_event: select polls the edge-wait first, so
\* an edge that is ready wins over a timer that is ready too.
LoopStep(s, edge, t, cfg) ==
    IF edge THEN OnEdge(s, t)
    ELSE IF TimerReady(s, t, cfg) THEN OnTimer(s, t, cfg)
    ELSE [state |-> s, event |-> NoEvent]

\* The pass computes count + 1 beyond the 8 bits.
Overflows(s, edge, t, cfg) ==
    /\ ~edge
    /\ s.tag = "PressDebouncing"
    /\ TimerReady(s, t, cfg)
    /\ s.count + 1 >= CountModulus

\* The pass as compiled: with overflow checks a sum beyond the 8 bits
\* panics before the state is assigned.
LoopStepBuilt(b, s, edge, t, cfg) ==
    IF b.overflow_checks /\ Overflows(s, edge, t, cfg)
    THEN [state |-> s, event |-> Overflowed]
    ELSE LoopStep(s, edge, t, cfg)

(***************************************************************************)
(* The drivers.                                                            *)
(***************************************************************************)
Kinds == {"Gpio", "Adc", "Matrix", "Keypad"}

\* parked when the publisher is not suspended.
None == <<>>

\* Analog values the ADC can return.
MaxVoltage == 2
Voltages == 0..MaxVoltage

\* PubSubChannel<_, _, MSG_CAP, _, _>: messages the bus retains.
MSG_CAP == 4

\* SimpleAdcButton.threshold_low / threshold_high of the adapter under study.
ThresholdLow == 1
ThresholdHigh == 1

\* KeypadButtonFactory::button(key_id) of the adapter under study.
KeyId == 0

\* MatrixDriver<_, _, COLS, ROWS, ..> and the cell of the adapter under study.
COLS == 2
ROWS == 1
ButtonRow == 0
ButtonCol == 1
Cells == (0..(ROWS - 1)) \X (0..(COLS - 1))

\* A u32 keymask is held as the set of its set bits: u32::MAX is 0..31,
\* 1 << k is {k}, and mask & key_mask != 0 is a non-empty intersection.
U32Bits == 32
U32Max == 0..(U32Bits - 1)

\* 1 << shift
Shl1(shift) == {shift}

\* mask & key_mask != 0
MaskHas(mask, key_mask) == mask \cap key_mask # {}

\* KeypadButton.key_mask = 1 << key_id
KeyMask == Shl1(KeyId)

\* A KeyDecoder of the shape the tests use: one voltage band per key, band k
\* (here the single value k + 1) sets bit k, any other value sets no bit.
Decode(value) == IF value >= 1 /\ value <= 2 THEN Shl1(value - 1) ELSE {}

\* RawFilter::process
RawFilterProcess(new_sample) == new_sample

KeyEvent(row, col, pressed) == [row |-> row, col |-> col, pressed |-> pressed]

\* A constructor that asserts its precondition returns the object or panics.
Built(value) == [ok |-> TRUE, value |-> value]
Panicked == [ok |-> FALSE]

\* MedianFilter::<N>::new().  The array samples is indexed from 1 here.
MedianFilterNew(n) ==
    IF n > 0
    THEN Built([n |-> n, samples |-> [i \in 1..n |-> 0], index |-> 0])
    ELSE Panicked

\* [u16]::sort_unstable: the array in ascending order.
RECURSIVE SortInsert(_, _)
SortInsert(sorted, x) ==
    IF sorted = <<>> THEN <<x>>
    ELSE IF x <= Head(sorted) THEN <<x>> \o sorted
    ELSE <<Head(sorted)>> \o SortInsert(Tail(sorted), x)

RECURSIVE SortUnstable(_)
SortUnstable(a) ==
    IF a = <<>> THEN <<>> ELSE SortInsert(SortUnstable(Tail(a)), Head(a))

\* (variant: the window is not sorted before its middle element is taken)
MedianFilterProcessUnsorted(f, new_sample) ==
    LET samples == [f.samples EXCEPT ![f.index + 1] = new_sample]
        index == f.index + 1
    IN IF index < f.n
       THEN [filter |-> [n |-> f.n, samples |-> samples, index |-> index],
             out |-> None]
       ELSE [filter |-> [n |-> f.n, samples |-> samples, index |-> 0],
             out |-> <<samples[(f.n \div 2) + 1]>>]

\* MedianFilter::process(new_sample): the filter afterwards and the Option
\* returned (None, or <<m>> for Some(m)).
MedianFilterProcess(f, new_sample) ==
    LET samples == [f.samples EXCEPT ![f.index + 1] = new_sample]
        index == f.index + 1
    IN IF index < f.n
       THEN [filter |-> [n |-> f.n, samples |-> samples, index |-> index],
             out |-> None]
       ELSE LET sorted == SortUnstable(samples)
            IN [filter |-> [n |-> f.n, samples |-> sorted, index |-> 0],
                out |-> <<sorted[(f.n \div 2) + 1]>>]

\* The RawFilter: it holds no sample.
RawFilter == [n |-> 0, samples |-> <<>>, index |-> 0]

\* AdcFilter::process of the filter f: the filter afterwards and the Option
\* returned.
FilterProcess(f, raw_value) ==
    IF f = RawFilter
    THEN [filter |-> f, out |-> <<RawFilterProcess(raw_value)>>]
    ELSE MedianFilterProcess(f, raw_value)

\* GpioButton: the level wait_for_press waits for is low for ActiveLevel::Low
\* and high for ActiveLevel::High.
GpioPressed(pin_high, level) == IF level = "Low" THEN ~pin_high ELSE pin_high

\* Whether the key under study is physically pressed.
HeldOf(k, pin_high, level, value, cells) ==
    CASE k = "Gpio" -> GpioPressed(pin_high, level)
      [] k = "Adc" -> value >= ThresholdLow /\ value <= ThresholdHigh
      [] k = "Keypad" -> MaskHas(Decode(value), KeyMask)
      [] OTHER -> cells[<<ButtonRow, ButtonCol>>]

Held == HeldOf(kind, pinHigh, active_level, voltage, grid)

\* The fields an adapter is created with: SimpleAdcButton.threshold_low and
\* threshold_high, MatrixButton.row and col, KeypadButton.key_mask.
Adapter(low, high, row, col, key_mask) ==
    [threshold_low |-> low, threshold_high |-> high, row |-> row, col |-> col,
     key_mask |-> key_mask]

\* The adapter under study.
Own == Adapter(ThresholdLow, ThresholdHigh, ButtonRow, ButtonCol, KeyMask)

\* (variant: the matrix adapter compares the column only)
MsgMatchesAnyRow(k, a, msg, wantPress) ==
    CASE k = "Adc" ->
            IF wantPress
            THEN msg >= a.threshold_low /\ msg <= a.threshold_high
            ELSE msg < a.threshold_low \/ msg > a.threshold_high
      [] k = "Keypad" -> MaskHas(msg, a.key_mask) = wantPress
      [] OTHER -> msg.col = a.col /\ msg.pressed = wantPress

\* (variant: the upper threshold is exclusive)
MsgMatchesBelowHigh(k, a, msg, wantPress) ==
    CASE k = "Adc" ->
            IF wantPress
            THEN msg >= a.threshold_low /\ msg < a.threshold_high
            ELSE msg < a.threshold_low \/ msg >= a.threshold_high
      [] k = "Keypad" -> MaskHas(msg, a.key_mask) = wantPress
      [] OTHER ->
            msg.row = a.row /\ msg.col = a.col /\ msg.pressed = wantPress

\* The condition a bus message must meet to end the wait of adapter a.
MsgMatches(k, a, msg, wantPress) ==
    CASE k = "Adc" ->
            IF wantPress
            THEN msg >= a.threshold_low /\ msg <= a.threshold_high
            ELSE msg < a.threshold_low \/ msg > a.threshold_high
      [] k = "Keypad" -> MaskHas(msg, a.key_mask) = wantPress
      [] OTHER ->
            msg.row = a.row /\ msg.col = a.col /\ msg.pressed = wantPress

\* The loop around next_message_pure(): messages are consumed in order until
\* one matches or none is left; last is the last message consumed.
RECURSIVE Drain(_, _, _, _, _)
Drain(k, a, q, wantPress, last) ==
    IF q = <<>> THEN [resolved |-> FALSE, sub |-> q, last |-> last]
    ELSE IF MsgMatches(k, a, Head(q), wantPress)
         THEN [resolved |-> TRUE, sub |-> Tail(q), last |-> Head(q)]
         ELSE Drain(k, a, Tail(q), wantPress, Head(q))

\* One poll of wait_for_press (wantPress) or wait_for_release: whether it
\* resolves, and what it leaves in the subscriber and in the cached mask.
DriverWait(k, a, wantPress, pressed, q, cache) ==
    CASE k = "Gpio" ->
            [resolved |-> (pressed = wantPress), sub |-> q, cache |-> cache]
      [] k = "Keypad" ->
            IF MaskHas(cache, a.key_mask) = wantPress
            THEN [resolved |-> TRUE, sub |-> q, cache |-> cache]
            ELSE LET d == Drain(k, a, q, wantPress, cache)
                 IN [resolved |-> d.resolved, sub |-> d.sub, cache |-> d.last]
      [] OTHER ->
            LET d == Drain(k, a, q, wantPress, cache)
            IN [resolved |-> d.resolved, sub |-> d.sub, cache |-> cache]

(***************************************************************************)
(* The bus, as the scan loops and one adapter use it.                      *)
(***************************************************************************)
\* publisher.publish(msg).await: with no subscriber the message is dropped;
\* with room it is queued; with the bus full the publisher stays suspended.
\* The bus keeps a message until every subscriber that existed when it was
\* published has consumed it, so it is full when some subscriber has
\* MSG_CAP messages left to consume.  peer.sub is the queue of the second
\* adapter; the further adapters (peer.more of them) consume every message
\* as it is published.
BusHasRoom ==
    /\ ~created \/ Len(sub) < MSG_CAP
    /\ ~peer.made \/ Len(peer.sub) < MSG_CAP

\* (variant: the newest message is handed out first)
PublishedFirst(msg) == IF created THEN <<msg>> \o sub ELSE sub

Published(msg) == IF created THEN Append(sub, msg) ELSE sub

PeerPublished(msg) == IF peer.made THEN [peer EXCEPT !.sub = Append(@, msg)] ELSE peer

\* No other adapter was asked for.
NoPeer == [made |-> FALSE, sub |-> <<>>, more |-> 0, failed |-> FALSE]

\* Subscribers of the channel: the adapter under study and the others.
Subscribers == (IF created THEN 1 ELSE 0) + (IF peer.made THEN 1 ELSE 0) + peer.more

\* The history of the bus.  In mode "bus": the messages published so far,
\* for each of the two adapters the number of messages published before it
\* subscribed and the messages it consumed.  In mode "scan": the number of
\* messages published and the last of them, the number of reads of the ADC
\* loop and the outcome of the last, and of the matrix driver's current sweep the stored states it
\* began with, the levels it read and the events it published.  In mode
\* "off" nothing is kept.  asked counts the calls of factory.button(..),
\* refused_at is the number of messages published when a call failed.
TraceInit(mode) ==
    [mode |-> mode, pubs |-> <<>>, joined |-> 0, got |-> <<>>, peer_joined |-> 0,
     peer_got |-> <<>>, npub |-> 0, last |-> None, nread |-> 0, read |-> "none",
     before |-> <<>>, levels |-> <<>>, swept |-> <<>>, asked |-> 0, refused_at |-> None]

TracePub(t, msg) ==
    CASE t.mode = "bus" -> [t EXCEPT !.pubs = Append(@, msg)]
      [] t.mode = "scan" -> [t EXCEPT !.npub = @ + 1, !.last = <<msg>>]
      [] OTHER -> t

TraceRead(t, outcome) ==
    IF t.mode = "scan" THEN [t EXCEPT !.nread = @ + 1, !.read = outcome] ELSE t

TraceGot(t, msgs) == IF t.mode = "bus" THEN [t EXCEPT !.got = @ \o msgs] ELSE t

TraceAsked(t) == IF t.mode # "off" THEN [t EXCEPT !.asked = @ + 1] ELSE t

TraceRefused(t) ==
    IF t.mode # "off" THEN [t EXCEPT !.asked = @ + 1, !.refused_at = <<t.npub>>] ELSE t

TraceJoined(t) == IF t.mode = "bus" THEN [t EXCEPT !.joined = Len(t.pubs)] ELSE t

TracePeerJoined(t) == IF t.mode = "bus" THEN [t EXCEPT !.peer_joined = Len(t.pubs)] ELSE t

TracePeerGot(t, msg) == IF t.mode = "bus" THEN [t EXCEPT !.peer_got = Append(@, msg)] ELSE t

\* The matrix driver read a cell; the first cell begins a sweep.
TraceCell(t, first, stored, level) ==
    IF t.mode # "scan" THEN t
    ELSE IF first
    THEN [t EXCEPT !.before = stored, !.levels = <<level>>, !.swept = <<>>]
    ELSE [t EXCEPT !.levels = Append(@, level)]

\* The matrix driver published an event of its current sweep.
TraceSwept(t, event) ==
    IF t.mode = "scan"
    THEN [TracePub(t, event) EXCEPT !.swept = Append(@, event)]
    ELSE TracePub(t, event)

(***************************************************************************)
(* History of the current press sequence.  A sequence begins with a press  *)
(* edge that finds the engine at rest in Idle.  edges lists the instants   *)
(* of the key's physical edges since then (press, release, press, ..);     *)
(* outs lists the events next_event returned since then, each with its     *)
(* instant and with the number of edges that preceded it.  A sequence is   *)
(* abandoned when the caller drops a pending call.                         *)
(***************************************************************************)
\* No caller operation yet.
NoOp == [name |-> "none", state |-> Idle, config |-> CfgDefault]

NoHist == [edges |-> <<>>, outs |-> <<>>]

\* No second button.  Of a second button: its engine state, the events its
\* next_event returned (outs) and those of the button under study (mine),
\* whether the call of the button under study is dropped, whether the key
\* moved while it was (excused), whether the call was resumed in
\* PressDebouncing after the debounce had run out (late), and whether a
\* task ran at this instant (polled).
NoTwin ==
    [on |-> FALSE, state |-> Idle, outs |-> <<>>, mine |-> <<>>, dropped |-> FALSE,
     excused |-> FALSE, late |-> FALSE, polled |-> FALSE]

Out(name, count) ==
    [name |-> name, count |-> count, at |-> now, after |-> Len(hist.edges)]

Logged(name, count) == [hist EXCEPT !.outs = Append(@, Out(name, count))]

ClickNames == {"Click", "DoubleClick", "MultipleClick"}

\* What a poll of the pending next_event() finds.
PollWait == DriverWait(kind, Own, WaitsForPress(state), Held, sub, last_known_mask)

PollEnabled ==
    /\ created
    /\ polling
    /\ (PollWait.resolved \/ TimerReady(state, now, config) \/ PollWait.sub # sub)

\* The engine waits in Idle for a press, and neither the scan loop nor the
\* bus holds a press it has not seen yet.
AtRest ==
    /\ created
    /\ polling
    /\ state = Idle
    /\ ~Held
    /\ ~sampled
    /\ parked = None
    /\ ~PollWait.resolved

\* The sequence so far is a bounce still going on: it produced no event and
\* its last edge is less than debounce old.
Bouncing ==
    /\ hist.edges # <<>>
    /\ hist.outs = <<>>
    /\ now - hist.edges[Len(hist.edges)] < config.debounce

\* The history after an edge of the key at this instant.
Edged(isPress) ==
    IF isPress /\ AtRest /\ ~Bouncing
    THEN [edges |-> <<now>>, outs |-> <<>>]
    ELSE [hist EXCEPT !.edges = Append(@, now)]

HistAfter(wasHeld, isHeld) ==
    IF wasHeld = isHeld \/ (hist = NoHist /\ ~(isHeld /\ AtRest)) THEN hist
    ELSE Edged(isHeld)

(***************************************************************************)
(* Initial state: the driver (pin, or scan loop and factory) is built; a   *)
(* GPIO button is built with it, a bus-fed adapter when its factory is     *)
(* asked for it.                                                           *)
(***************************************************************************)
InitWith(kinds, maxTime, maxEdges, maxOps) ==
    /\ now = 0
    /\ kind \in kinds
    /\ created = (kind = "Gpio")
    /\ state = Idle
    /\ config \in Configs
    /\ polling = FALSE
    /\ returned = NoEvent
    /\ active_level \in IF kind = "Gpio" THEN {"Low", "High"} ELSE {"Low"}
    /\ pinHigh = (active_level = "Low")
    /\ voltage = 0
    /\ grid = [c \in Cells |-> FALSE]
    /\ last_states = [c \in Cells |-> FALSE]
    /\ scan_pos = 0
    /\ last_mask = U32Max
    /\ parked = None
    /\ scanned = (kind = "Gpio")
    /\ sub = <<>>
    /\ last_known_mask = {}
    /\ sampled = FALSE
    /\ confirmed = 0
    /\ moved = FALSE
    /\ used = [edges |-> 0, ops |-> 0, op |-> NoOp]
    /\ limits = [time |-> maxTime, edges |-> maxEdges, ops |-> maxOps]
    /\ hist = NoHist
    /\ peer = NoPeer
    /\ build = ReleaseBuild
    /\ twin = NoTwin

\* The scan loop runs a RawFilter and no history of the bus is kept.
Plain == filter = RawFilter /\ trace = TraceInit("off")

\* The channel's number of subscriber slots.
SUBS == 4

\* (variant: a subscriber is handed out whatever the number of slots taken)
SubscriberOkAlways == TRUE

\* channel.subscriber(): Err(MaximumSubscribersReached) once the SUBS slots
\* are taken, and the factories unwrap() the result.
SubscriberOk == Subscribers < SUBS

\* factory.button(..) followed by Button::new(driver, config).
NewButton ==
    /\ ~created
    /\ ~peer.failed
    /\ IF SubscriberOk
       THEN /\ created' = TRUE
            /\ sub' = <<>>
            /\ last_known_mask' = {}
            /\ state' = Idle
            /\ trace' = TraceAsked(TraceJoined(trace))
            /\ peer' = peer
       ELSE /\ peer' = [peer EXCEPT !.failed = TRUE]
            /\ trace' = TraceRefused(trace)
            /\ UNCHANGED <<created, sub, last_known_mask, state>>
    /\ UNCHANGED <<now, config, polling, returned, confirmed, physVars, scanVars, frameVars,
                   filter, moved, used, hist>>

\* factory.button(..) for a second adapter, whose subscriber is followed.
NewPeer ==
    /\ ~peer.made
    /\ ~peer.failed
    /\ IF SubscriberOk
       THEN peer' = [peer EXCEPT !.made = TRUE]
            /\ trace' = TraceAsked(TracePeerJoined(trace))
       ELSE peer' = [peer EXCEPT !.failed = TRUE] /\ trace' = TraceRefused(trace)
    /\ UNCHANGED <<now, created, engineVars, physVars, scanVars, busVars, frameVars,
                   filter, moved, used, hist>>

\* factory.button(..) for a further adapter; these consume every message
\* as it is published.
NewOther ==
    /\ peer.made
    /\ ~peer.failed
    /\ IF SubscriberOk
       THEN peer' = [peer EXCEPT !.more = @ + 1] /\ trace' = TraceAsked(trace)
       ELSE peer' = [peer EXCEPT !.failed = TRUE] /\ trace' = TraceRefused(trace)
    /\ UNCHANGED <<now, created, engineVars, physVars, scanVars, busVars, frameVars,
                   filter, moved, used, hist>>

\* The second adapter's wait consumes the next message of its subscriber.
PeerTake ==
    /\ peer.made
    /\ peer.sub # <<>>
    /\ peer' = [peer EXCEPT !.sub = Tail(@)]
    /\ trace' = TracePeerGot(trace, Head(peer.sub))
    /\ UNCHANGED <<now, created, engineVars, physVars, scanVars, busVars, frameVars,
                   filter, moved, used, hist>>

\* The adapter under study is polled in wait_for_press() or
\* wait_for_release() by a caller other than the engine.
AdapterWait ==
    /\ created
    /\ ~polling
    /\ \E wantPress \in BOOLEAN :
          LET w == DriverWait(kind, Own, wantPress, Held, sub, last_known_mask)
          IN /\ sub' = w.sub
             /\ last_known_mask' = w.cache
             /\ trace' = TraceGot(trace, SubSeq(sub, 1, Len(sub) - Len(w.sub)))
    /\ UNCHANGED <<now, created, engineVars, physVars, scanVars, frameVars,
                   filter, peer, moved, used, hist>>

\* The physical signal changes, at most once per instant.
MayChange ==
    /\ ~moved
    /\ used.edges < limits.edges
    /\ moved' = TRUE
    /\ used' = [used EXCEPT !.edges = @ + 1]
    /\ UNCHANGED <<now, created, engineVars, scanVars, busVars, fixedVars>>

PinChange ==
    /\ kind = "Gpio"
    /\ MayChange
    /\ pinHigh' = ~pinHigh
    /\ hist' = HistAfter(Held, ~Held)
    /\ UNCHANGED <<voltage, grid>>

VoltageChange ==
    /\ kind \in {"Adc", "Keypad"}
    /\ MayChange
    /\ \E v \in Voltages \ {voltage} :
        /\ voltage' = v
        /\ hist' = HistAfter(Held, HeldOf(kind, pinHigh, active_level, v, grid))
    /\ UNCHANGED <<pinHigh, grid>>

CellChange ==
    /\ kind = "Matrix"
    /\ MayChange
    /\ \E c \in Cells :
        /\ grid' = [grid EXCEPT ![c] = ~grid[c]]
        /\ hist' = HistAfter(Held, HeldOf(kind, pinHigh, active_level, voltage, grid'))
    /\ UNCHANGED <<pinHigh, voltage>>

(***************************************************************************)
(* The scan loops.  Each reads the signal once per instant, at any point   *)
(* of the instant (before or after the signal changes in it).              *)
(***************************************************************************)
\* AdcDriver::run, an iteration whose read succeeds: read, filter, publish
\* what the filter returns if it returns a value; the loop is then in the
\* filter's inter_sample_delay until the next instant.
AdcScan ==
    /\ kind = "Adc"
    /\ ~scanned
    /\ parked = None
    /\ scanned' = TRUE
    /\ sampled' = Held
    /\ LET raw_value == voltage
           r == FilterProcess(filter, raw_value)
       IN /\ filter' = r.filter
          /\ IF r.out = None
             THEN /\ UNCHANGED <<sub, parked, peer>>
                  /\ trace' = TraceRead(trace, "ok")
             ELSE IF BusHasRoom
             THEN /\ sub' = Published(r.out[1])
                  /\ peer' = PeerPublished(r.out[1])
                  /\ parked' = None
                  /\ trace' = TraceRead(TracePub(trace, r.out[1]), "ok")
             ELSE /\ parked' = <<r.out[1]>>
                  /\ UNCHANGED <<sub, peer>>
                  /\ trace' = TraceRead(trace, "ok")
    /\ UNCHANGED <<now, created, engineVars, physVars, frameVars, last_states,
                   scan_pos, last_mask, last_known_mask, moved, used, hist>>

\* (variant: a failed read feeds the filter a sample of 0)
AdcScanFailFiltering ==
    /\ kind = "Adc"
    /\ ~scanned
    /\ parked = None
    /\ scanned' = TRUE
    /\ filter' = FilterProcess(filter, 0).filter
    /\ trace' = TraceRead(trace, "err")
    /\ UNCHANGED <<now, created, engineVars, physVars, busVars, frameVars, peer,
                   last_states, scan_pos, last_mask, parked, sampled, moved, used, hist>>

\* AdcDriver::run, an iteration whose read fails: nothing is filtered or
\* published, and the loop goes on to the filter's inter_sample_delay.
AdcScanFail ==
    /\ kind = "Adc"
    /\ ~scanned
    /\ parked = None
    /\ scanned' = TRUE
    /\ trace' = TraceRead(trace, "err")
    /\ UNCHANGED <<now, created, engineVars, physVars, busVars, frameVars, filter, peer,
                   last_states, scan_pos, last_mask, parked, sampled, moved, used, hist>>

\* (variant: every decoded mask is published)
MaskDiffersAlways(current_mask, last) == TRUE

\* current_mask != last_mask
MaskDiffers(current_mask, last) == current_mask # last

\* KeypadDriver::run with a RawFilter: read, filter, decode, publish the mask
\* when it differs from last_mask, then remember it.
KeypadScan ==
    /\ kind = "Keypad"
    /\ ~scanned
    /\ parked = None
    /\ scanned' = TRUE
    /\ sampled' = Held
    /\ LET current_mask == Decode(RawFilterProcess(voltage))
       IN IF ~MaskDiffers(current_mask, last_mask)
          THEN /\ UNCHANGED <<sub, parked, last_mask, peer>>
               /\ trace' = TraceRead(trace, "ok")
          ELSE IF BusHasRoom
               THEN /\ sub' = Published(current_mask)
                    /\ peer' = PeerPublished(current_mask)
                    /\ trace' = TraceRead(TracePub(trace, current_mask), "ok")
                    /\ last_mask' = current_mask
                    /\ parked' = None
               ELSE /\ parked' = <<current_mask>>
                    /\ trace' = TraceRead(trace, "ok")
                    /\ UNCHANGED <<sub, last_mask, peer>>
    /\ UNCHANGED <<now, created, engineVars, physVars, frameVars, filter, last_states,
                   scan_pos, last_known_mask, moved, used, hist>>

\* (variant: the level read is not stored)
StoredNot(states, cell, is_pressed) == states

\* self.last_states[r][c] = is_pressed
Stored(states, cell, is_pressed) == [states EXCEPT ![cell] = is_pressed]

\* MatrixDriver::run, one cell of the sweep: column c = scan_pos / ROWS is
\* driven, row r = scan_pos % ROWS is read; after the last cell the loop
\* pauses until the next sweep.
MatrixStep ==
    /\ kind = "Matrix"
    /\ ~scanned
    /\ parked = None
    /\ IF scan_pos = ROWS * COLS
       THEN /\ scanned' = TRUE
            /\ UNCHANGED <<last_states, scan_pos, sub, parked, sampled, peer, trace>>
       ELSE LET c == scan_pos \div ROWS
                r == scan_pos % ROWS
                is_pressed == grid[<<r, c>>]
                read == TraceCell(trace, scan_pos = 0, last_states, is_pressed)
            IN /\ scanned' = FALSE
               /\ sampled' = IF <<r, c>> = <<ButtonRow, ButtonCol>>
                             THEN is_pressed ELSE sampled
               /\ IF is_pressed = last_states[<<r, c>>]
                  THEN /\ scan_pos' = scan_pos + 1
                       /\ trace' = read
                       /\ UNCHANGED <<last_states, sub, parked, peer>>
                  ELSE /\ last_states' = Stored(last_states, <<r, c>>, is_pressed)
                       /\ IF BusHasRoom
                          THEN /\ sub' = Published(KeyEvent(r, c, is_pressed))
                               /\ peer' = PeerPublished(KeyEvent(r, c, is_pressed))
                               /\ trace' = TraceSwept(read, KeyEvent(r, c, is_pressed))
                               /\ scan_pos' = scan_pos + 1
                               /\ parked' = None
                          ELSE /\ parked' = <<KeyEvent(r, c, is_pressed)>>
                               /\ trace' = read
                               /\ UNCHANGED <<sub, scan_pos, peer>>
    /\ UNCHANGED <<now, created, engineVars, physVars, frameVars, filter, last_mask,
                   last_known_mask, moved, used, hist>>

\* publish().await completes once the bus has room again.
PublishResume ==
    /\ parked # None
    /\ BusHasRoom
    /\ sub' = Published(parked[1])
    /\ peer' = PeerPublished(parked[1])
    /\ trace' = IF kind = "Matrix" THEN TraceSwept(trace, parked[1])
                ELSE TracePub(trace, parked[1])
    /\ parked' = None
    /\ last_mask' = IF kind = "Keypad" THEN parked[1] ELSE last_mask
    /\ scan_pos' = IF kind = "Matrix" THEN scan_pos + 1 ELSE scan_pos
    /\ UNCHANGED <<now, created, engineVars, physVars, frameVars, filter, last_states,
                   scanned, sampled, last_known_mask, moved, used, hist>>

\* Nothing is left for the scan loop to do at this instant.
ScanQuiet ==
    \/ kind = "Gpio"
    \/ parked = None /\ scanned
    \/ parked # None /\ ~BusHasRoom

(***************************************************************************)
(* Button                                                                  *)
(***************************************************************************)
\* The caller awaits next_event().
NextEvent ==
    /\ created
    /\ ~polling
    /\ returned # Overflowed
    /\ polling' = TRUE
    /\ returned' = NoEvent
    /\ UNCHANGED <<now, created, state, config, confirmed, physVars, scanVars,
                   busVars, fixedVars, moved, used, hist>>

\* The executor polls the pending next_event(): the edge-wait consumes what
\* the bus holds for it, then one pass of the loop runs; a returned event
\* ends the call.
Poll ==
    /\ PollEnabled
    /\ LET w == PollWait
           r == LoopStepBuilt(build, state, w.resolved, now, config)
       IN /\ state' = r.state
          /\ sub' = w.sub
          /\ last_known_mask' = w.cache
          /\ polling' = (r.event = NoEvent)
          /\ returned' = r.event
          /\ hist' = IF r.event = NoEvent \/ hist = NoHist THEN hist
                     ELSE Logged(r.event.name, r.event.count)
          /\ confirmed' =
                IF state.tag = "PressDebouncing" /\ r.state.tag = "Pressed"
                THEN confirmed + 1
                ELSE IF state.tag = "Idle" /\ r.state.tag # "Idle" THEN 0
                ELSE confirmed
    /\ UNCHANGED <<now, created, config, physVars, scanVars, fixedVars, moved, used>>

\* The executor polls the pending next_event() and the pin's wait_for_low /
\* wait_for_high returns Err: unwrap_or_default() turns the error into (),
\* so the edge-wait returns as it does on an edge, whatever the pin's level.
PollPinError ==
    /\ created
    /\ polling
    /\ kind = "Gpio"
    /\ used.ops < limits.ops
    /\ used' = [used EXCEPT !.ops = @ + 1,
                            !.op = [name |-> "pin_error", state |-> state, config |-> config]]
    /\ LET r == LoopStep(state, TRUE, now, config)
       IN /\ state' = r.state
          /\ polling' = (r.event = NoEvent)
          /\ returned' = r.event
          /\ hist' = IF r.event = NoEvent \/ hist = NoHist THEN hist
                     ELSE Logged(r.event.name, r.event.count)
          /\ confirmed' = IF state.tag = "Idle" THEN 0 ELSE confirmed
    /\ UNCHANGED <<now, created, config, physVars, scanVars, busVars, fixedVars, moved>>

\* A caller operation between two calls; used.op remembers the last one and
\* what it found.
CallerOp(name) ==
    /\ created
    /\ used.ops < limits.ops
    /\ used' = [used EXCEPT !.ops = @ + 1,
                            !.op = [name |-> name, state |-> state, config |-> config]]
    /\ UNCHANGED hist

\* The caller drops the pending next_event() future (a with_timeout expiring).
Drop ==
    /\ created
    /\ polling
    /\ polling' = FALSE
    /\ hist' = NoHist
    /\ UNCHANGED <<now, created, state, config, returned, confirmed, physVars, scanVars,
                   busVars, fixedVars, moved, used>>

\* Button::reset, callable only while no next_event() borrows the button.
ResetStateKeep(s) == s

ResetState(s) == Idle

Reset ==
    /\ ~polling
    /\ CallerOp("reset")
    /\ state' = ResetState(state)
    /\ confirmed' = 0
    /\ UNCHANGED <<now, created, config, polling, returned, physVars, scanVars, busVars,
                   fixedVars, moved>>

\* Button::set_config, callable only while no next_event() borrows the button.
SetConfigResultKeep(old_config, new_config) == old_config

SetConfigResult(old_config, new_config) == new_config

SetConfig ==
    /\ ~polling
    /\ CallerOp("set_config")
    /\ \E new_config \in Configs \ {config} :
          config' = SetConfigResult(config, new_config)
    /\ UNCHANGED <<now, created, state, polling, returned, confirmed, physVars, scanVars,
                   busVars, fixedVars, moved>>

(***************************************************************************)
(* Time.  The clock advances only when the executor has nothing runnable:  *)
(* the pending next_event() can make no progress and the scan loop has     *)
(* taken its sample (or is suspended on a full bus).                       *)
(***************************************************************************)
Tick ==
    /\ now < limits.time
    /\ ~PollEnabled
    /\ ScanQuiet
    /\ now' = now + 1
    /\ moved' = FALSE
    /\ scanned' = (kind = "Gpio")
    /\ scan_pos' = IF scanned THEN 0 ELSE scan_pos
    /\ UNCHANGED <<created, engineVars, physVars, busVars, fixedVars, last_states,
                   last_mask, parked, sampled, used, hist>>

\* The caller of the running system awaits next_event() in a loop, so once
\* the button exists no time passes between two calls.
TickRun == (created => polling) /\ Tick

(***************************************************************************)
(* Functions applied on their own                                          *)
(***************************************************************************)
NoLab == [op |-> "none"]

Samples == 0..MaxSample

\* The queues of at most n messages over the set msgs.
SeqsUpTo(msgs, n) == UNION {[1..m -> msgs] : m \in 0..n}

\* KeyEvents as a MatrixDriver may publish them, and with one coordinate
\* past the grid.
Coords == [row : 0..ROWS, col : 0..COLS]
KeyEvents == {KeyEvent(c.row, c.col, p) : c \in Coords, p \in BOOLEAN}

\* A wait of a threshold adapter or of a matrix adapter on a subscriber that
\* holds the queue q.
WaitInputs ==
    {[op |-> "wait", kind |-> "Adc", a |-> Adapter(lo, hi, 0, 0, {}), q |-> q,
      wantPress |-> w, done |-> FALSE]
        : lo \in Samples, hi \in Samples, q \in SeqsUpTo(Samples, MaxQueue),
          w \in BOOLEAN}
    \cup
    {[op |-> "wait", kind |-> "Matrix", a |-> Adapter(0, 0, c.row, c.col, {}), q |-> q,
      wantPress |-> w, done |-> FALSE]
        : c \in Coords, q \in SeqsUpTo(KeyEvents, MaxQueue), w \in BOOLEAN}

\* wait_for_press().await / wait_for_release().await polled until the
\* subscriber is empty.
LabWait ==
    /\ lab.op = "wait"
    /\ ~lab.done
    /\ lab' = [op |-> "wait", kind |-> lab.kind, a |-> lab.a, q |-> lab.q,
               wantPress |-> lab.wantPress, done |-> TRUE,
               out |-> DriverWait(lab.kind, lab.a, lab.wantPress, FALSE, lab.q, {})]
    /\ UNCHANGED <<now, created, engineVars, physVars, scanVars, busVars, kind,
                   active_level, limits, build, twin, filter, peer, trace, moved, used,
                   hist>>

\* A new median filter of each window size, about to be fed samples.
MedianInputs ==
    {[op |-> "median", filter |-> MedianFilterNew(n).value, fed |-> <<>>, out |-> None]
        : n \in 1..MaxN}

\* filter.process(sample) with any sample.
LabMedianProcess ==
    /\ lab.op = "median"
    /\ Len(lab.fed) < MaxCalls
    /\ \E sample \in Samples :
          LET r == MedianFilterProcess(lab.filter, sample)
          IN lab' = [op |-> "median", filter |-> r.filter,
                     fed |-> Append(lab.fed, sample), out |-> r.out]
    /\ UNCHANGED <<now, created, engineVars, physVars, scanVars, busVars, kind,
                   active_level, limits, build, twin, filter, peer, trace, moved, used,
                   hist>>

\* KeypadButtonFactory::button(key_id), its subscriber apart.
KeypadButtonFactoryButton(key_id) ==
    IF key_id < U32Bits
    THEN Built([key_mask |-> Shl1(key_id), last_known_mask |-> {}])
    ELSE Panicked

\* MatrixButtonFactory::button(row, col), its subscriber apart: the factory
\* stores the coordinates as given.
MatrixButtonFactoryButton(row, col) == Built([row |-> row, col |-> col])

\* The constructors with arguments inside and outside their preconditions:
\* a key id up to one past the 32 bits, a window of 0 to MaxN samples, a
\* cell up to one row and one column past the grid.
NewInputs ==
    {[op |-> "new", what |-> "KeypadButton", key_id |-> id, done |-> FALSE]
        : id \in 0..(U32Bits + 1)}
    \cup {[op |-> "new", what |-> "MedianFilter", n |-> n, done |-> FALSE] : n \in 0..MaxN}
    \cup {[op |-> "new", what |-> "MatrixButton", row |-> c.row, col |-> c.col,
           done |-> FALSE] : c \in Coords}

\* The constructor called.
LabNew ==
    /\ lab.op = "new"
    /\ ~lab.done
    /\ lab' =
          CASE lab.what = "KeypadButton" ->
                 [op |-> "new", what |-> lab.what, key_id |-> lab.key_id, done |-> TRUE,
                  out |-> KeypadButtonFactoryButton(lab.key_id)]
            [] lab.what = "MedianFilter" ->
                 [op |-> "new", what |-> lab.what, n |-> lab.n, done |-> TRUE,
                  out |-> MedianFilterNew(lab.n)]
            [] OTHER ->
                 [op |-> "new", what |-> lab.what, row |-> lab.row, col |-> lab.col,
                  done |-> TRUE, out |-> MatrixButtonFactoryButton(lab.row, lab.col)]
    /\ UNCHANGED <<now, created, engineVars, physVars, scanVars, busVars, kind,
                   active_level, limits, build, twin, filter, peer, trace, moved, used,
                   hist>>

LabInputs == WaitInputs \cup MedianInputs \cup NewInputs

InitLab ==
    /\ InitWith({"Gpio"}, 0, 0, 0)
    /\ Plain
    /\ config = CfgDefault
    /\ active_level = "Low"
    /\ lab \in LabInputs

NextLab ==
    \/ LabWait
    \/ LabMedianProcess
    \/ LabNew

SpecLab == InitLab /\ [][NextLab]_vars

(***************************************************************************)
(* Specifications                                                          *)
(***************************************************************************)
\* Any driver kind; the button is polled continuously once created.  With
\* next_event always pending the subscriber is drained at once, so the bus
\* never fills and no scan loop is ever suspended in publish().await.
Init == InitWith(Kinds, BusMaxTime, BusMaxEdges, 0) /\ lab = NoLab /\ Plain

Next ==
    \/ NewButton
    \/ PinChange
    \/ VoltageChange
    \/ CellChange
    \/ AdcScan
    \/ KeypadScan
    \/ MatrixStep
    \/ NextEvent
    \/ Poll
    \/ TickRun

Spec == Init /\ [][Next]_vars

\* A GPIO button polled continuously, over a longer run.
InitGpio == InitWith({"Gpio"}, MaxTime, MaxEdges, 0) /\ lab = NoLab /\ Plain

NextGpio ==
    \/ PinChange
    \/ NextEvent
    \/ Poll
    \/ TickRun

SpecGpio == InitGpio /\ [][NextGpio]_vars

\* A GPIO button whose caller may drop a pending call, wait between calls,
\* reset the button and replace its configuration.
InitCtl == InitWith({"Gpio"}, CtlMaxTime, CtlMaxEdges, CtlMaxOps) /\ lab = NoLab /\ Plain

NextCtl ==
    \/ PinChange
    \/ NextEvent
    \/ Poll
    \/ Drop
    \/ Reset
    \/ SetConfig
    \/ Tick

SpecCtl == InitCtl /\ [][NextCtl]_vars

\* A GPIO button late in a multi-click sequence: CountModulus - 2 presses
\* have been confirmed and released inside the window, each in turn, and the
\* last release has just been confirmed; instants are counted from that
\* release.  The crate is compiled with or without overflow checks.
ManyClicks == CountModulus - 2

InitMany ==
    /\ kind = "Gpio"
    /\ created = TRUE
    /\ config = CfgFast
    /\ now = config.debounce
    /\ state = WaitingForMultiClick(ManyClicks, 0)
    /\ confirmed = ManyClicks
    /\ polling = FALSE
    /\ returned = NoEvent
    /\ active_level = "Low"
    /\ pinHigh = TRUE
    /\ voltage = 0
    /\ grid = [c \in Cells |-> FALSE]
    /\ last_states = [c \in Cells |-> FALSE]
    /\ scan_pos = 0
    /\ last_mask = U32Max
    /\ parked = None
    /\ scanned = TRUE
    /\ sub = <<>>
    /\ last_known_mask = {}
    /\ sampled = FALSE
    /\ moved = FALSE
    /\ used = [edges |-> 0, ops |-> 0, op |-> NoOp]
    /\ limits = [time |-> ManyMaxTime, edges |-> ManyMaxEdges, ops |-> 0]
    /\ hist = NoHist
    /\ peer = NoPeer
    /\ lab = NoLab
    /\ Plain
    /\ build \in {ReleaseBuild, DevBuild}
    /\ twin = NoTwin

NextMany ==
    \/ PinChange
    \/ NextEvent
    \/ Poll
    \/ TickRun

SpecMany == InitMany /\ [][NextMany]_vars

\* A GPIO button polled continuously whose pin waits may return an error.
InitFault ==
    InitWith({"Gpio"}, FaultMaxTime, FaultMaxEdges, FaultMaxOps) /\ lab = NoLab /\ Plain

NextFault ==
    \/ PinChange
    \/ NextEvent
    \/ Poll
    \/ PollPinError
    \/ TickRun

SpecFault == InitFault /\ [][NextFault]_vars

(***************************************************************************)
(* Two GPIO buttons with the same configuration on the same key.  The      *)
(* caller of the first wraps next_event() in with_timeout and may let it   *)
(* expire, dropping the pending call, and calls again later; the caller of *)
(* the second awaits next_event() in a loop and never drops a call.  The   *)
(* key moves at the beginning of an instant, before any task runs.         *)
(***************************************************************************)
\* Button::new for the second button.
TwinNew ==
    /\ kind = "Gpio"
    /\ ~twin.on
    /\ twin' = [NoTwin EXCEPT !.on = TRUE]
    /\ UNCHANGED <<now, created, engineVars, physVars, scanVars, busVars, setupVars,
                   moved, used, hist>>

\* The pin changes.
TwinPinChange ==
    /\ twin.on
    /\ ~twin.polled
    /\ ~moved
    /\ used.edges < limits.edges
    /\ moved' = TRUE
    /\ used' = [used EXCEPT !.edges = @ + 1]
    /\ pinHigh' = ~pinHigh
    /\ twin' = [twin EXCEPT !.excused = @ \/ twin.dropped]
    /\ UNCHANGED <<now, created, engineVars, voltage, grid, scanVars, busVars, setupVars,
                   hist>>

\* (variant: the timers run for their duration from the call that arms them)
ArmedFromCall(s, t) ==
    IF s.tag \in {"ReleaseDebouncing", "WaitingForMultiClick"}
    THEN [s EXCEPT !.release_start = t]
    ELSE [s EXCEPT !.start_time = t]

\* The state whose race a call of next_event() at instant t arms: Timer::at
\* takes its deadline from the instant stored in the state.
Armed(s, t) == s

\* The first caller awaits next_event(), for the first time, after an event
\* or after a dropped call.
TwinNextEvent ==
    /\ twin.on
    /\ ~polling
    /\ polling' = TRUE
    /\ state' = Armed(state, now)
    /\ returned' = NoEvent
    /\ twin' = [twin EXCEPT !.dropped = FALSE,
                            !.polled = TRUE,
                            !.late = @ \/ (/\ twin.dropped
                                           /\ state.tag = "PressDebouncing"
                                           /\ now > state.start_time + config.debounce)]
    /\ UNCHANGED <<now, created, config, confirmed, physVars, scanVars, busVars,
                   setupVars, moved, used, hist>>

\* The executor polls the pending next_event() of the first button.
TwinPollFirst ==
    /\ twin.on
    /\ PollEnabled
    /\ LET r == LoopStep(state, PollWait.resolved, now, config)
       IN /\ state' = r.state
          /\ polling' = (r.event = NoEvent)
          /\ returned' = r.event
          /\ confirmed' =
                IF state.tag = "PressDebouncing" /\ r.state.tag = "Pressed"
                THEN confirmed + 1
                ELSE IF state.tag = "Idle" /\ r.state.tag # "Idle" THEN 0
                ELSE confirmed
          /\ twin' = [twin EXCEPT !.polled = TRUE,
                                  !.mine = IF r.event = NoEvent THEN @
                                           ELSE Append(@, r.event)]
    /\ UNCHANGED <<now, created, config, physVars, scanVars, busVars, setupVars, moved,
                   used, hist>>

\* What a poll of the second button's wait_for_press / wait_for_release finds.
TwinWait == Held = WaitsForPress(twin.state)

TwinPollEnabled == twin.on /\ (TwinWait \/ TimerReady(twin.state, now, config))

\* The executor polls the next_event() of the second button; a returned
\* event is followed by the next call at once.
TwinPollSecond ==
    /\ TwinPollEnabled
    /\ LET r == LoopStep(twin.state, TwinWait, now, config)
       IN twin' = [twin EXCEPT !.state = r.state,
                               !.polled = TRUE,
                               !.outs = IF r.event = NoEvent THEN @
                                        ELSE Append(@, r.event)]
    /\ UNCHANGED <<now, created, engineVars, physVars, scanVars, busVars, setupVars,
                   moved, used, hist>>

\* with_timeout(.., button.next_event()) expires: select polls the call
\* first, so the timeout wins only when the call can make no progress, and
\* the pending call is dropped.
TwinDrop ==
    /\ twin.on
    /\ polling
    /\ ~PollEnabled
    /\ used.ops < limits.ops
    /\ used' = [used EXCEPT !.ops = @ + 1,
                            !.op = [name |-> "drop", state |-> state, config |-> config]]
    /\ polling' = FALSE
    /\ twin' = [twin EXCEPT !.dropped = TRUE, !.polled = TRUE]
    /\ UNCHANGED <<now, created, state, config, returned, confirmed, physVars, scanVars,
                   busVars, setupVars, moved, hist>>

\* Time passes when neither button has a task to run; the first caller
\* calls again at once after an event, and at any later instant after a
\* dropped call.
TwinTick ==
    /\ twin.on
    /\ now < limits.time
    /\ polling \/ twin.dropped
    /\ ~PollEnabled
    /\ ~TwinPollEnabled
    /\ now' = now + 1
    /\ moved' = FALSE
    /\ twin' = [twin EXCEPT !.polled = FALSE]
    /\ UNCHANGED <<created, engineVars, physVars, scanVars, busVars, setupVars, used, hist>>

InitTwin ==
    InitWith({"Gpio"}, TwinMaxTime, TwinMaxEdges, TwinMaxOps) /\ lab = NoLab /\ Plain

NextTwin ==
    \/ TwinNew
    \/ TwinPinChange
    \/ TwinNextEvent
    \/ TwinPollFirst
    \/ TwinPollSecond
    \/ TwinDrop
    \/ TwinTick

SpecTwin == InitTwin /\ [][NextTwin]_vars

(***************************************************************************)
(* The two ADC loops pass by pass.  A pass is one adc.read().await with    *)
(* what follows it up to the next read; lab.log lists, in order, the reads *)
(* and the invocations of filter.inter_sample_delay().                     *)
(***************************************************************************)
RunLab == [op |-> "run", log |-> <<>>]

\* The analog values and outcomes of a read.
Reads == [ok : {TRUE}, raw_value : Voltages] \cup {[ok |-> FALSE, raw_value |-> 0]}

\* AdcDriver::run, one pass of the loop: read; on Ok feed the filter and
\* publish what it returns; then inter_sample_delay, whatever happened.
AdcRunPass ==
    /\ kind = "Adc"
    /\ lab.op = "run"
    /\ Len(lab.log) < 2 * PaceMaxPasses
    /\ parked = None
    /\ \E read \in Reads :
          LET r == IF read.ok THEN FilterProcess(filter, read.raw_value)
                   ELSE [filter |-> filter, out |-> None]
          IN /\ filter' = r.filter
             /\ voltage' = IF read.ok THEN read.raw_value ELSE voltage
             /\ sub' = IF r.out = None THEN sub ELSE Published(r.out[1])
             /\ lab' = [lab EXCEPT !.log = @ \o <<"read", "inter_sample_delay">>]
    /\ UNCHANGED <<now, created, engineVars, pinHigh, grid, scanVars, last_known_mask,
                   kind, active_level, limits, build, peer, trace, twin, moved, used,
                   hist>>

\* KeypadDriver::run, one pass of the inner loop: read; on Ok feed the
\* filter; when it returns a value, break, decode it, publish the mask if it
\* differs from last_mask, and go back to the read; otherwise
\* inter_sample_delay.
KeypadRunPass ==
    /\ kind = "Keypad"
    /\ lab.op = "run"
    /\ Len(lab.log) < 2 * PaceMaxPasses
    /\ parked = None
    /\ \E read \in Reads :
          LET r == IF read.ok THEN FilterProcess(filter, read.raw_value)
                   ELSE [filter |-> filter, out |-> None]
          IN /\ filter' = r.filter
             /\ voltage' = IF read.ok THEN read.raw_value ELSE voltage
             /\ IF r.out = None
                THEN /\ lab' = [lab EXCEPT !.log = @ \o <<"read", "inter_sample_delay">>]
                     /\ UNCHANGED <<sub, last_mask>>
                ELSE LET current_mask == Decode(r.out[1])
                     IN /\ lab' = [lab EXCEPT !.log = Append(@, "read")]
                        /\ sub' = IF MaskDiffers(current_mask, last_mask)
                                  THEN Published(current_mask) ELSE sub
                        /\ last_mask' = current_mask
    /\ UNCHANGED <<now, created, engineVars, pinHigh, grid, last_states, scan_pos, parked,
                   scanned, sampled, last_known_mask, kind, active_level, limits, build,
                   peer, trace, twin, moved, used, hist>>

InitPace ==
    /\ InitWith({"Adc", "Keypad"}, 0, 0, 0)
    /\ config = CfgDefault
    /\ filter \in {RawFilter} \cup {MedianFilterNew(n).value : n \in 1..MaxN}
    /\ trace = TraceInit("off")
    /\ lab = RunLab

NextPace ==
    \/ AdcRunPass
    \/ KeypadRunPass

SpecPace == InitPace /\ [][NextPace]_vars

(***************************************************************************)
(* The keypad loop with a decoder of the caller's: KeyDecoder::decode may  *)
(* return any u32.  lab holds the decoder (a mask per analog value), the   *)
(* number of reads, the last filtered value and the last mask handed to    *)
(* publish().                                                              *)
(***************************************************************************)
\* The masks a decoder of the model returns: no key, the key of the adapter
\* under study, every key.
DecodedMasks == {{}, KeyMask, U32Max}

KeyDecoders == [Voltages -> DecodedMasks]

DecodeLab(decoder) ==
    [op |-> "decode", decoder |-> decoder, passes |-> 0, value |-> None,
     published |-> None]

\* KeypadDriver::run, one pass of the inner loop and, when the filter
\* returns a value, the rest of the outer iteration: decode the value,
\* publish the mask if it differs from last_mask and remember it.
KeypadRunDecode ==
    /\ kind = "Keypad"
    /\ lab.op = "decode"
    /\ lab.passes < DecodeMaxPasses
    /\ parked = None
    /\ \E read \in Reads :
          LET r == IF read.ok THEN FilterProcess(filter, read.raw_value)
                   ELSE [filter |-> filter, out |-> None]
          IN /\ filter' = r.filter
             /\ voltage' = IF read.ok THEN read.raw_value ELSE voltage
             /\ IF r.out = None
                THEN /\ lab' = [lab EXCEPT !.passes = @ + 1]
                     /\ UNCHANGED <<sub, last_mask>>
                ELSE LET current_mask == lab.decoder[r.out[1]]
                     IN IF MaskDiffers(current_mask, last_mask)
                        THEN /\ sub' = Published(current_mask)
                             /\ last_mask' = current_mask
                             /\ lab' = [lab EXCEPT !.passes = @ + 1,
                                                   !.value = r.out,
                                                   !.published = <<current_mask>>]
                        ELSE /\ lab' = [lab EXCEPT !.passes = @ + 1, !.value = r.out]
                             /\ UNCHANGED <<sub, last_mask>>
    /\ UNCHANGED <<now, created, engineVars, pinHigh, grid, last_states, scan_pos, parked,
                   scanned, sampled, last_known_mask, kind, active_level, limits, build,
                   peer, trace, twin, moved, used, hist>>

InitDecode ==
    /\ InitWith({"Keypad"}, 0, 0, 0)
    /\ config = CfgDefault
    /\ filter \in {RawFilter} \cup {MedianFilterNew(n).value : n \in 1..MaxN}
    /\ trace = TraceInit("off")
    /\ lab \in {DecodeLab(decoder) : decoder \in KeyDecoders}

NextDecode == KeypadRunDecode

SpecDecode == InitDecode /\ [][NextDecode]_vars

\* A scan loop and one adapter whose waits are polled at any pace or not
\* at all; the ADC loop runs either filter and its reads may fail.
InitScan ==
    /\ InitWith({"Adc", "Keypad", "Matrix"}, ScanMaxTime, ScanMaxEdges, 0)
    /\ config = CfgDefault
    /\ lab = NoLab
    /\ filter \in IF kind = "Adc"
                  THEN {RawFilter} \cup {MedianFilterNew(n).value : n \in 1..MaxN}
                  ELSE {RawFilter}
    /\ trace = TraceInit("scan")

NextScan ==
    \/ NewButton
    \/ AdapterWait
    \/ VoltageChange
    \/ CellChange
    \/ AdcScan
    \/ AdcScanFail
    \/ KeypadScan
    \/ MatrixStep
    \/ PublishResume
    \/ Tick

SpecScan == InitScan /\ [][NextScan]_vars

\* A scan loop with a RawFilter, its bus and the adapters its factory is
\* asked for, each consuming its messages at any pace or not at all.
InitBus ==
    /\ InitWith({"Adc", "Keypad", "Matrix"}, PeerMaxTime, PeerMaxEdges, 0)
    /\ config = CfgDefault
    /\ lab = NoLab
    /\ filter = RawFilter
    /\ trace = TraceInit("bus")

NextBus ==
    \/ NewButton
    \/ NewPeer
    \/ AdapterWait
    \/ PeerTake
    \/ VoltageChange
    \/ CellChange
    \/ AdcScan
    \/ KeypadScan
    \/ MatrixStep
    \/ PublishResume
    \/ Tick

SpecBus == InitBus /\ [][NextBus]_vars

\* A scan loop with a RawFilter and a factory that is asked for adapters
\* until the channel has no subscriber slot left.
InitSlots ==
    /\ InitWith({"Adc", "Keypad", "Matrix"}, SlotMaxTime, SlotMaxEdges, 0)
    /\ config = CfgDefault
    /\ lab = NoLab
    /\ filter = RawFilter
    /\ trace = TraceInit("scan")

NextSlots ==
    \/ NewButton
    \/ NewPeer
    \/ NewOther
    \/ AdapterWait
    \/ PeerTake
    \/ VoltageChange
    \/ CellChange
    \/ AdcScan
    \/ KeypadScan
    \/ MatrixStep
    \/ PublishResume
    \/ Tick

SpecSlots == InitSlots /\ [][NextSlots]_vars

(***************************************************************************)
(* Reading the history of a press sequence                                 *)
(***************************************************************************)
Max(a, b) == IF a >= b THEN a ELSE b

\* How long after a physical edge the driver may report it: a GPIO wait
\* follows the pin itself, a scan loop samples once per clock unit.
ScanLatency == IF kind = "Gpio" THEN 0 ELSE 1

Edges == hist.edges
NumEdges == Len(hist.edges)

\* The events returned up to the instant of edge number n + 1 of the
\* sequence (all events so far when there is no such edge yet).
OutEvents(n) ==
    LET early == SelectSeq(hist.outs,
                     LAMBDA o : NumEdges > n => o.at <= Edges[n + 1])
    IN [i \in 1..Len(early) |-> [name |-> early[i].name, count |-> early[i].count]]

\* The sequence has exactly n edges so far and the key has since been still
\* for longer than quiet, or its edge n + 1 came later than quiet after edge n.
StillAfter(n, quiet) ==
    \/ NumEdges = n /\ now - Edges[n] > quiet
    \/ NumEdges > n /\ Edges[n + 1] - Edges[n] > quiet

\* Nothing more can come out for the first n edges: the instant of a later
\* edge has passed, or every timer they could have started has run out.
Decided(n) ==
    \/ NumEdges > n /\ now > Edges[n + 1]
    \/ /\ NumEdges = n
       /\ now - Edges[n] > ScanLatency + Max(config.debounce,
                Max(config.multi_click_window, config.long_press_time))

\* Length of the k-th press of the sequence, from press edge to release edge.
PressLength(k) == Edges[2 * k] - Edges[2 * k - 1]

(***************************************************************************)
(* C1                                                                      *)
(***************************************************************************)
\* C1 as stated: one press longer than debounce and shorter than
\* long_press_time (from its press edge), released and followed by silence
\* longer than multi_click_window, produces exactly one Click, whatever the
\* driver kind.
C1_ClickAsStated ==
    (/\ NumEdges >= 2
     /\ PressLength(1) > config.debounce
     /\ PressLength(1) < config.long_press_time
     /\ StillAfter(2, config.multi_click_window)
     /\ Decided(2))
    => OutEvents(2) = <<Click>>

\* C1 amended: one press longer than debounce + s and shorter than
\* long_press_time, released and followed by silence longer than
\* max(debounce, multi_click_window) + s, has produced exactly one Click and
\* the engine is back in Idle; s is the driver's reporting delay (none for
\* GPIO, one scan period for the bus-fed drivers).
C1_Click ==
    (/\ NumEdges >= 2
     /\ PressLength(1) > config.debounce + ScanLatency
     /\ PressLength(1) < config.long_press_time
     /\ StillAfter(2, Max(config.debounce, config.multi_click_window) + ScanLatency))
    => /\ OutEvents(2) = <<Click>>
       /\ NumEdges = 2 => state = Idle /\ Len(hist.outs) = 1

\* A matrix cell pressed once and released has produced its Click.
C1_ClickWitness ==
    /\ kind = "Matrix"
    /\ NumEdges = 2
    /\ PressLength(1) > config.debounce + ScanLatency
    /\ PressLength(1) < config.long_press_time
    /\ StillAfter(2, Max(config.debounce, config.multi_click_window) + ScanLatency)
    /\ OutEvents(2) = <<Click>>
    /\ state = Idle

(***************************************************************************)
(* C2                                                                      *)
(***************************************************************************)
\* Gap between the k-th release and the next press of the sequence.
Gap(k) == Edges[2 * k + 1] - Edges[2 * k]

\* The first n presses each last longer than debounce and shorter than
\* long_press_time.
ClickPresses(n) ==
    \A k \in 1..n : PressLength(k) > config.debounce
                    /\ PressLength(k) < config.long_press_time

\* The sequence is n click presses, the gaps between them satisfying gapOk,
\* followed by silence longer than quiet.
ClickTrain(n, gapOk(_), quiet) ==
    /\ NumEdges >= 2 * n
    /\ ClickPresses(n)
    /\ \A k \in 1..(n - 1) : gapOk(Gap(k))
    /\ StillAfter(2 * n, quiet)

\* C2 as stated: two click presses separated by any gap shorter than
\* multi_click_window and followed by silence produce exactly DoubleClick;
\* three produce exactly MultipleClick with count 3.
C2_MultiClickAsStated ==
    \A n \in {2, 3} :
       (/\ ClickTrain(n, LAMBDA g : g < config.multi_click_window,
                      config.multi_click_window)
        /\ Decided(2 * n))
       => OutEvents(2 * n) = <<IF n = 2 THEN DoubleClick ELSE MultipleClick(n)>>

\* C2 amended: two click presses separated by a gap longer than debounce and
\* shorter than multi_click_window, followed by silence longer than
\* max(debounce, multi_click_window), have produced exactly DoubleClick;
\* three have produced exactly MultipleClick with count 3.
C2_MultiClick ==
    \A n \in {2, 3} :
       ClickTrain(n, LAMBDA g : g > config.debounce /\ g < config.multi_click_window,
                  Max(config.debounce, config.multi_click_window))
       => /\ OutEvents(2 * n) = <<IF n = 2 THEN DoubleClick ELSE MultipleClick(n)>>
          /\ NumEdges = 2 * n => state = Idle /\ Len(hist.outs) = 1

\* Three click presses in a row have produced MultipleClick with count 3.
C2_MultiClickWitness ==
    /\ ClickTrain(3, LAMBDA g : g > config.debounce /\ g < config.multi_click_window,
                  Max(config.debounce, config.multi_click_window))
    /\ NumEdges = 6
    /\ hist.outs # <<>>
    /\ hist.outs[1].name = "MultipleClick"
    /\ hist.outs[1].count = 3

(***************************************************************************)
(* C3                                                                      *)
(***************************************************************************)
\* Every edge of the sequence so far came less than debounce after the one
\* before it, and a press still standing is less than debounce old.
BounceOnly ==
    /\ NumEdges >= 1
    /\ \A k \in 1..(NumEdges - 1) : Edges[k + 1] - Edges[k] < config.debounce
    /\ NumEdges % 2 = 1 => now - Edges[NumEdges] < config.debounce

\* C3: a sequence of alternating edges, each less than debounce after the
\* previous one, has produced no event; the engine has not reached Pressed,
\* and it is in Idle once the instant of the last release has passed.
C3_BounceSilent ==
    BounceOnly
    => /\ hist.outs = <<>>
       /\ state.tag \in {"Idle", "PressDebouncing"}
       /\ (NumEdges % 2 = 0 /\ now > Edges[NumEdges]) => state = Idle

\* Two bounces in a row (four edges) have left the engine silent in Idle.
C3_BounceSilentWitness ==
    /\ BounceOnly
    /\ NumEdges = 4
    /\ now > Edges[NumEdges]
    /\ state = Idle
    /\ hist.outs = <<>>

(***************************************************************************)
(* C4                                                                      *)
(***************************************************************************)
\* The sequence has a k-th press.
HasPress(k) == NumEdges >= 2 * k - 1

\* The k-th press has been released.
Released(k) == NumEdges >= 2 * k

\* How long the k-th press has been held so far.
HeldFor(k) ==
    IF Released(k) THEN PressLength(k) ELSE now - Edges[2 * k - 1]

\* Positions in outs of the events with a name in names that were returned
\* while the number of edges before them was in lo..hi.
OutsAt(names, lo, hi) ==
    {i \in 1..Len(hist.outs) :
        hist.outs[i].name \in names /\ hist.outs[i].after \in lo..hi}

\* Events of the k-th press: returned after its press edge and before the
\* next press edge.
StartsOf(k) == OutsAt({"LongPressStart"}, 2 * k - 1, 2 * k)
HoldsOf(k) == OutsAt({"LongPressHold"}, 2 * k - 1, 2 * k)
ReleasesOf(k) == OutsAt({"LongPressRelease"}, 2 * k - 1, 2 * k)
ClicksOf(k) == OutsAt(ClickNames, 2 * k - 1, 2 * k)

Presses == 1..((MaxEdges + 2) \div 2)

\* C4 as stated: a press held for longer than long_press_time after its
\* press edge yields LongPressStart exactly once and no click event.
C4_LongPressAsStated ==
    \A k \in Presses :
       (/\ Released(k)
        /\ PressLength(k) > config.long_press_time
        /\ Decided(2 * k))
       => /\ Cardinality(StartsOf(k)) = 1
          /\ ClicksOf(k) = {}

\* C4 amended: a press held for longer than debounce + long_press_time after
\* its press edge has yielded LongPressStart exactly once, while it was held,
\* and yields no click event.
C4_LongPress ==
    \A k \in Presses :
       (HasPress(k) /\ HeldFor(k) > config.debounce + config.long_press_time)
       => /\ Cardinality(OutsAt({"LongPressStart"}, 2 * k - 1, 2 * k - 1)) = 1
          /\ Cardinality(StartsOf(k)) = 1
          /\ ClicksOf(k) = {}

\* A press has been held past debounce + long_press_time, released, and the
\* window has run out after it.
C4_LongPressWitness ==
    /\ NumEdges = 2
    /\ PressLength(1) > config.debounce + config.long_press_time
    /\ now - Edges[2] > config.multi_click_window
    /\ Cardinality(StartsOf(1)) = 1
    /\ ClicksOf(1) = {}
    /\ state = Idle

(***************************************************************************)
(* C5                                                                      *)
(***************************************************************************)
\* Instant of the first event of the k-th press with the given name.
FirstAt(k, name) ==
    LET at == OutsAt({name}, 2 * k - 1, 2 * k)
    IN hist.outs[CHOOSE i \in at : \A j \in at : i <= j].at

\* C5 as stated: when a long press is released h after LongPressStart,
\* floor(h / long_press_hold_interval) LongPressHold events were returned
\* between the two (one fewer is accepted when the release falls exactly on
\* a hold instant), and none of them less than one hold interval after
\* LongPressStart.
C5_HoldPacing ==
    \A k \in Presses :
       (StartsOf(k) # {} /\ ReleasesOf(k) # {})
       => LET started == FirstAt(k, "LongPressStart")
              h == FirstAt(k, "LongPressRelease") - started
              due == h \div config.long_press_hold_interval
              holds == Cardinality(HoldsOf(k))
          IN /\ holds = due
                \/ (h % config.long_press_hold_interval = 0 /\ holds = due - 1)
             /\ \A i \in HoldsOf(k) :
                   hist.outs[i].at >= started + config.long_press_hold_interval

(***************************************************************************)
(* C6                                                                      *)
(***************************************************************************)
LastOut == hist.outs[Len(hist.outs)]

\* A long press has started and its release has not been returned yet.
LongPressOpen ==
    hist.outs # <<>> /\ LastOut.name \in {"LongPressStart", "LongPressHold"}

\* C6: a LongPressStart is followed by LongPressHold events only, until
\* the first release edge, on which exactly one LongPressRelease is returned
\* and the engine is in Idle; that press yields no click event; and
\* LongPressHold and LongPressRelease come only after a LongPressStart whose
\* release has not been returned.
C6_LongPressBracket ==
    /\ \A i \in 1..Len(hist.outs) :
          LET o == hist.outs[i]
          IN /\ o.name \in {"LongPressHold", "LongPressRelease"}
                => i > 1 /\ hist.outs[i - 1].name \in {"LongPressStart", "LongPressHold"}
             /\ (o.name \in {"LongPressStart", "LongPressHold"} /\ i < Len(hist.outs))
                => hist.outs[i + 1].name \in {"LongPressHold", "LongPressRelease"}
             /\ o.name \in {"LongPressStart", "LongPressHold"} => o.after % 2 = 1
             /\ o.name = "LongPressRelease"
                => o.after % 2 = 0 /\ o.at = Edges[o.after]
    /\ \A k \in Presses :
          StartsOf(k) # {} => Cardinality(StartsOf(k)) = 1 /\ ClicksOf(k) = {}
    /\ Edges # <<>> => (state.tag = "LongPress" <=> LongPressOpen)
    /\ LongPressOpen => NumEdges % 2 = 1 \/ now = Edges[NumEdges]
    /\ (hist.outs # <<>> /\ LastOut.name = "LongPressRelease" /\ LastOut.after = NumEdges)
       => state = Idle

\* A long press went through LongPressStart, LongPressHold and
\* LongPressRelease, and the window has run out since.
C6_LongPressBracketWitness ==
    /\ NumEdges = 2
    /\ Len(hist.outs) >= 3
    /\ hist.outs[1].name = "LongPressStart"
    /\ hist.outs[2].name = "LongPressHold"
    /\ LastOut.name = "LongPressRelease"
    /\ now - Edges[2] > config.multi_click_window
    /\ state = Idle

(***************************************************************************)
(* C7                                                                      *)
(***************************************************************************)
\* The click event that stands for n presses.
ClickFor(n) ==
    IF n = 1 THEN Click ELSE IF n = 2 THEN DoubleClick ELSE MultipleClick(n)

IsOp(name) == used'.ops = used.ops + 1 /\ used'.op.name = name

\* C8: reset() between two calls puts the engine in Idle, leaves config and
\* driver as they are, and discards timing and count: afterwards a click
\* event counts only presses confirmed after the reset, and the engine is in
\* LongPress (the only state that returns LongPressHold or LongPressRelease)
\* only for a press confirmed after it.
C8_Reset ==
    /\ [][IsOp("reset")
          => /\ ~polling
             /\ state' = Idle
             /\ config' = config
             /\ UNCHANGED <<physVars, scanVars, busVars, fixedVars, created>>]_vars
    /\ [][(returned' # returned /\ returned'.name \in ClickNames)
          => returned' = ClickFor(confirmed)]_vars
    /\ [][(returned' # returned
             /\ returned'.name \in {"LongPressHold", "LongPressRelease"})
          => state.tag = "LongPress"]_vars
    /\ [](state.tag \in {"Pressed", "ReleaseDebouncing", "WaitingForMultiClick"}
             => state.count = confirmed /\ confirmed >= 1)
    /\ [](state.tag = "LongPress" => confirmed >= 1)

\* reset() found the engine in WaitingForMultiClick with one click counted;
\* the window it discarded has run out since, and no event came.
C8_ResetWitness ==
    /\ used.op.name = "reset"
    /\ used.op.state.tag = "WaitingForMultiClick"
    /\ used.op.state.count = 1
    /\ polling
    /\ returned = NoEvent
    /\ state = Idle
    /\ now > used.op.state.release_start + config.multi_click_window

(***************************************************************************)
(* C9                                                                      *)
(***************************************************************************)
\* The step is a pass of the loop taken because the state's timer ran out.
TimerStep ==
    /\ polling
    /\ state' # state
    /\ \/ state.tag = "PressDebouncing" /\ state'.tag = "Pressed"
       \/ state.tag = "Pressed" /\ state'.tag = "LongPress"
       \/ state.tag = "ReleaseDebouncing" /\ state'.tag = "WaitingForMultiClick"
       \/ state.tag = "WaitingForMultiClick" /\ state'.tag = "Idle"
       \/ state.tag = "LongPress" /\ state'.tag = "LongPress"

\* The instant at which the timer of state s runs out under durations cfg.
Expiry(s, cfg) ==
    IF s.tag = "PressDebouncing" THEN s.start_time + cfg.debounce
    ELSE IF s.tag = "Pressed" THEN s.start_time + cfg.long_press_time
    ELSE IF s.tag = "ReleaseDebouncing" THEN s.release_start + cfg.debounce
    ELSE IF s.tag = "WaitingForMultiClick"
         THEN s.release_start + cfg.multi_click_window
    ELSE s.start_time + cfg.long_press_hold_interval

\* C9: set_config replaces the durations and leaves the engine state as it
\* is; a timer runs out exactly by the durations in force at that moment,
\* also for a state entered before set_config: no pass of the loop takes the
\* timer branch before that instant, and no time passes beyond it while
\* next_event is pending.
C9_SetConfig ==
    /\ [][IsOp("set_config")
          => /\ ~polling
             /\ config' \in Configs \ {config}
             /\ state' = state
             /\ confirmed' = confirmed]_vars
    /\ [][TimerStep => now >= Expiry(state, config)]_vars
    /\ [][(now' # now /\ polling /\ state.tag # "Idle")
          => now < Expiry(state, config)]_vars

\* set_config found the engine in Pressed and changed long_press_time;
\* LongPressStart has come back at the instant the new duration gives.
C9_SetConfigWitness ==
    /\ used.op.name = "set_config"
    /\ used.op.state.tag = "Pressed"
    /\ used.op.config.long_press_time # config.long_press_time
    /\ state = LongPress(used.op.state.start_time)
    /\ returned = LongPressStart
    /\ now = used.op.state.start_time + config.long_press_time

(***************************************************************************)
(* C10                                                                     *)
(***************************************************************************)
\* C10 as stated: once the keypad adapter exists and next_event is pending,
\* a key that is held, that the decoder loop has published in its last mask,
\* and about which nothing is left to deliver, has been detected by the
\* engine (the adapter's wait_for_press has returned), also when the key was
\* already held when the adapter was created.
C10_HeldKeyDetected ==
    (/\ kind = "Keypad"
     /\ created
     /\ polling
     /\ Held
     /\ scanned
     /\ MaskHas(last_mask, KeyMask)
     /\ parked = None
     /\ sub = <<>>)
    => state # Idle

(***************************************************************************)
(* The adapters' waits, the median filter and the constructors, applied    *)
(* on their own (SpecLab)                                                  *)
(***************************************************************************)
\* The positions of q whose message satisfies ok.
Hits(q, ok(_)) == {i \in 1..Len(q) : ok(q[i])}

\* The least member of a non-empty set of numbers.
Min(S) == CHOOSE i \in S : \A j \in S : i <= j

\* A wait that was handed the queue q and whose messages are judged by ok
\* ended as it should: it resolved exactly when some message satisfies ok,
\* and then consumed the queue up to and including the first such message;
\* with none it consumed the whole queue.
WaitOutcome(q, out, ok(_)) ==
    LET hits == Hits(q, ok)
    IN IF hits = {}
       THEN ~out.resolved /\ out.sub = <<>>
       ELSE out.resolved /\ out.sub = SubSeq(q, Min(hits) + 1, Len(q))

LabWaited(k) == lab.op = "wait" /\ lab.kind = k /\ lab.done

\* C11: wait_for_press() of the threshold adapter returns on consuming the
\* first sample with threshold_low <= sample <= threshold_high (both bounds
\* inclusive), wait_for_release() on consuming the first sample outside
\* that band; the samples before it are consumed and ignored, and without
\* such a sample the wait stays pending.
C11_ThresholdWait ==
    LabWaited("Adc") =>
        LET InBand(v) == lab.a.threshold_low <= v /\ v <= lab.a.threshold_high
            Ends(v) == InBand(v) = lab.wantPress
        IN WaitOutcome(lab.q, lab.out, Ends)

\* A press wait that skipped a sample below the band and one above it and
\* returned on a sample equal to the upper bound.
C11_ThresholdWaitWitness ==
    /\ LabWaited("Adc")
    /\ lab.wantPress
    /\ lab.a.threshold_low = 1 /\ lab.a.threshold_high = 2
    /\ lab.q = <<0, 3, 2>>
    /\ lab.out.resolved

\* C12: wait_for_press() of the matrix adapter returns only on a KeyEvent
\* that names its own row and column with pressed = true, wait_for_release()
\* only on one that names them with pressed = false; events of other cells
\* and events of its own cell in the other direction are consumed and
\* ignored.
C12_MatrixWait ==
    LabWaited("Matrix") =>
        LET Ends(e) ==
                /\ e.row = lab.a.row
                /\ e.col = lab.a.col
                /\ e.pressed = lab.wantPress
        IN WaitOutcome(lab.q, lab.out, Ends)

\* A press wait of the adapter of cell (0, 1) that skipped a press in
\* another row of its column and the release of its own cell, and returned
\* on the press of its own cell.
C12_MatrixWaitWitness ==
    /\ LabWaited("Matrix")
    /\ lab.wantPress
    /\ lab.a.row = 0 /\ lab.a.col = 1
    /\ lab.q = <<KeyEvent(1, 1, TRUE), KeyEvent(0, 1, FALSE), KeyEvent(0, 1, TRUE)>>
    /\ lab.out.resolved
    /\ lab.out.sub = <<>>

\* m is the element at position k (counted from 0) of the samples w put in
\* ascending order: at most k of them are below m and more than k are not
\* above it.
RankIs(w, k, m) ==
    /\ \E i \in 1..Len(w) : w[i] = m
    /\ Cardinality({i \in 1..Len(w) : w[i] < m}) <= k
    /\ Cardinality({i \in 1..Len(w) : w[i] <= m}) > k

\* C13: a MedianFilter<N> fed any samples returns None on every call that
\* does not complete a window of N, and on every N-th call Some(m) with m
\* the element at sorted position N/2 of exactly the N samples fed since
\* the previous output; samples of earlier windows have no influence.
C13_MedianWindow ==
    (lab.op = "median" /\ lab.fed # <<>>) =>
        LET n == lab.filter.n
            calls == Len(lab.fed)
        IN IF calls % n # 0
           THEN lab.out = None
           ELSE /\ Len(lab.out) = 1
                /\ RankIs(SubSeq(lab.fed, calls - n + 1, calls), n \div 2, lab.out[1])

\* The second window of a filter of three: the first window held larger
\* samples, the second is fed out of order, and its median is returned.
C13_MedianWindowWitness ==
    /\ lab.op = "median"
    /\ lab.filter.n = 3
    /\ lab.fed = <<3, 3, 3, 2, 0, 1>>
    /\ lab.out = <<1>>

LabBuilt(what) == lab.op = "new" /\ lab.what = what /\ lab.done

\* C20: every precondition violation is rejected at construction: a keymask
\* adapter with key_id >= 32, a MedianFilter with N = 0 and a matrix adapter
\* with row >= ROWS or col >= COLS fail instead of returning an object; for
\* key_id < 32 the adapter's mask has exactly bit key_id set.
C20_ConstructorsReject ==
    /\ LabBuilt("KeypadButton") =>
          IF lab.key_id >= 32
          THEN ~lab.out.ok
          ELSE lab.out.ok /\ lab.out.value.key_mask = {lab.key_id}
    /\ LabBuilt("MedianFilter") => (lab.n = 0 => ~lab.out.ok)
    /\ LabBuilt("MatrixButton") =>
          ((lab.row >= ROWS \/ lab.col >= COLS) => ~lab.out.ok)

(***************************************************************************)
(* The scan loops (SpecScan)                                               *)
(***************************************************************************)
\* This step begins a publish: a message is handed to the bus, or the loop
\* is suspended with it on a full bus.
PublishBegins ==
    \/ trace'.npub = trace.npub + 1
    \/ parked = None /\ parked' # None

\* The message the step hands to the bus.
PublishedNow == IF parked' # None THEN parked'[1] ELSE trace'.last[1]

\* The median filter f took the sample and became g: its window holds the
\* sample and one sample more than before, or is complete and begins anew.
Collected(f, g, sample) ==
    /\ g.n = f.n
    /\ g.index = (f.index + 1) % f.n
    /\ \E i \in 1..g.n : g.samples[i] = sample

\* C14: every iteration of the ADC scan loop performs one raw read, then on
\* success one filter step and a publish exactly when the filter returns a
\* value, then the filter's inter-sample delay before the next read; an
\* iteration whose read fails publishes nothing, leaves the filter
\* unchanged and still performs the delay.
C14_AdcIteration ==
    [][/\ (kind = "Adc" /\ trace'.nread # trace.nread) =>
            /\ trace'.nread = trace.nread + 1
            /\ ~scanned /\ scanned'
            /\ IF trace'.read = "ok"
               THEN /\ filter = RawFilter =>
                         /\ filter' = filter
                         /\ PublishBegins /\ PublishedNow = voltage
                    /\ filter # RawFilter =>
                         /\ Collected(filter, filter', voltage)
                         /\ PublishBegins <=> filter'.index = 0
               ELSE /\ trace'.read = "err"
                    /\ filter' = filter
                    /\ ~PublishBegins
       /\ (kind = "Adc" /\ scanned /\ ~scanned') => now' = now + 1
       /\ (kind = "Adc" /\ trace'.nread = trace.nread) =>
            (filter' = filter /\ (PublishBegins => parked # None))]_vars

\* A median filter of two that holds one sample after four iterations, the
\* last of whose reads failed; a window was completed and published before.
C14_AdcIterationWitness ==
    /\ kind = "Adc"
    /\ filter.n = 2
    /\ filter.index = 1
    /\ trace.read = "err"
    /\ trace.nread = 4
    /\ trace.npub = 1
    /\ scanned

\* C15: the keypad decoder loop publishes a decoded mask if and only if it
\* differs from the mask it published last: a published mask is the one
\* just decoded and never equals the one published before it, and once a
\* mask has been published every decoded mask that differs from the last
\* published one is published.
C15_MaskOnChange ==
    [][(kind = "Keypad" /\ trace'.nread # trace.nread) =>
          LET current_mask == Decode(voltage)
          IN /\ PublishBegins =>
                  /\ PublishedNow = current_mask
                  /\ trace.last # None => current_mask # trace.last[1]
             /\ (trace.last # None /\ current_mask # trace.last[1]) => PublishBegins]_vars

\* Three masks were published in five iterations of the loop.
C15_MaskOnChangeWitness ==
    /\ kind = "Keypad"
    /\ trace.npub = 3
    /\ trace.nread = 5
    /\ trace.last = <<{}>>

\* The cell read at position pos (counted from 1) of a sweep: the columns
\* are driven in turn and the rows of each read in turn.
CellAt(pos) == <<(pos - 1) % ROWS, (pos - 1) \div ROWS>>

\* A sweep of the matrix driver has read every cell and published what it
\* had to publish.
SweepDone ==
    /\ kind = "Matrix"
    /\ scan_pos = ROWS * COLS
    /\ parked = None
    /\ Len(trace.levels) = ROWS * COLS

\* The positions of the sweep whose level read differs from the state stored
\* when the sweep began (the levels read by the sweep before it).
Differing == {pos \in 1..(ROWS * COLS) : trace.levels[pos] # trace.before[CellAt(pos)]}

\* C16: when exactly one cell's level differs between two consecutive
\* sweeps the later sweep publishes exactly one KeyEvent, with that cell's
\* row, column and new level; a sweep in which no level differs from the
\* stored grid publishes nothing; after each sweep the stored grid equals
\* the levels read in it.
C16_SweepEvents ==
    SweepDone =>
        /\ \A pos \in 1..(ROWS * COLS) :
              Differing = {pos} =>
                  trace.swept = <<KeyEvent(CellAt(pos)[1], CellAt(pos)[2], trace.levels[pos])>>
        /\ Differing = {} => trace.swept = <<>>
        /\ \A pos \in 1..(ROWS * COLS) : last_states[CellAt(pos)] = trace.levels[pos]

\* A sweep that found cell (0, 1) closed while cell (0, 0) had been closed
\* before, and published the one event.
C16_SweepEventsWitness ==
    /\ SweepDone
    /\ trace.before[<<0, 0>>] /\ ~trace.before[<<0, 1>>]
    /\ trace.levels = <<TRUE, TRUE>>
    /\ trace.swept = <<KeyEvent(0, 1, TRUE)>>
    /\ trace.npub = 2

(***************************************************************************)
(* The bus and its subscribers (SpecBus, SpecSlots)                        *)
(***************************************************************************)
\* C17: a subscriber that stops reading never blocks the scan loop: every
\* publish of the scan loop completes however far a subscriber has fallen
\* behind, so the loop is never suspended in publish().
C17_PublishNeverBlocks == parked = None

\* What a subscriber that joined after `joined` publishes has consumed is
\* the run of messages published from then on, in publish order and each
\* once.
InPublishOrder(got, joined) ==
    /\ joined + Len(got) <= Len(trace.pubs)
    /\ got = SubSeq(trace.pubs, joined + 1, joined + Len(got))

\* C18: on every bus, for each subscriber, the sequence of values it
\* consumes is a subsequence of the scan loop's publish sequence in the
\* same order: nothing is delivered out of publish order and nothing twice.
C18_InPublishOrder ==
    /\ InPublishOrder(trace.got, trace.joined)
    /\ InPublishOrder(trace.peer_got, trace.peer_joined)

\* Two adapters at different places of the same publish sequence: the first
\* has consumed three messages, not all equal, the second subscribed later
\* and has consumed one.
C18_InPublishOrderWitness ==
    /\ created /\ peer.made
    /\ Len(trace.got) = 3
    /\ trace.got[1] # trace.got[2]
    /\ trace.peer_joined = 2
    /\ Len(trace.peer_got) = 1

\* C19: asking a factory for one more adapter than the channel has
\* subscriber slots fails at that call and creates no adapter; the adapters
\* created before keep their queues and keep receiving what is published.
C19_SlotsExhausted ==
    [][/\ trace'.asked # trace.asked =>
            IF Subscribers < SUBS
            THEN Subscribers' = Subscribers + 1 /\ ~peer'.failed
            ELSE /\ peer'.failed
                 /\ Subscribers' = Subscribers
                 /\ UNCHANGED <<created, sub, last_known_mask>>
                 /\ peer'.sub = peer.sub
       /\ Subscribers' <= SUBS
       /\ (peer.failed /\ trace'.npub = trace.npub + 1) =>
            /\ created => sub' = Append(sub, trace'.last[1])
            /\ peer.made => peer'.sub = Append(peer.sub, trace'.last[1])]_vars

\* The fifth call failed before anything was published; the four adapters
\* exist, and two messages published since are in the queues of the two
\* that are followed.
C19_SlotsExhaustedWitness ==
    /\ peer.failed
    /\ trace.asked = SUBS + 1
    /\ Subscribers = SUBS
    /\ trace.refused_at = <<0>>
    /\ trace.npub = 2
    /\ Len(sub) = 2
    /\ Len(peer.sub) = 2

(***************************************************************************)
(* Hardware failures (SpecFault)                                           *)
(***************************************************************************)
\* C21: a hardware failure never advances the button state machine: when a
\* driver's hardware operation returns an error the engine makes no state
\* transition and returns no event because of it.
C21_FailureStalls ==
    [][used'.ops # used.ops => (state' = state /\ returned' = returned)]_vars

(***************************************************************************)
(* The engine's timers and counts (SpecGpio, SpecMany, SpecCtl)            *)
(***************************************************************************)
\* The timestamp recorded in a state other than Idle, and the duration of
\* the configuration that bounds the stay in it.
Stamp(s) ==
    IF s.tag \in {"ReleaseDebouncing", "WaitingForMultiClick"} THEN s.release_start
    ELSE s.start_time

Bound(s, cfg) ==
    CASE s.tag \in {"PressDebouncing", "ReleaseDebouncing"} -> cfg.debounce
      [] s.tag = "Pressed" -> cfg.long_press_time
      [] s.tag = "WaitingForMultiClick" -> cfg.multi_click_window
      [] OTHER -> cfg.long_press_hold_interval

\* C22: the engine can wait forever only in Idle: while next_event is
\* pending in any other state, time passes only as long as less than the
\* state's duration (debounce, long_press_time, debounce, multi_click_window,
\* long_press_hold_interval) has gone by since the timestamp recorded in it,
\* so the state is left by then at the latest.
C22_OnlyIdleUnbounded ==
    [][(now' # now /\ polling /\ state.tag # "Idle")
          => now - Stamp(state) < Bound(state, config)]_vars

\* A press held for long_press_time has left Pressed at that instant, with
\* LongPressStart.
C22_OnlyIdleUnboundedWitness ==
    /\ state.tag = "LongPress"
    /\ returned = LongPressStart
    /\ config = CfgDefault
    /\ now = state.start_time + config.long_press_time
    /\ used.edges = 1

\* C30: the 8-bit click count never overflows: count + 1 stays within
\* 0..255 (no pass of the loop panics on it) and the count held by the
\* engine, which MultipleClick reports, is the number of presses confirmed
\* in the sequence, also beyond 255.
C30_CountNeverOverflows ==
    /\ returned # Overflowed
    /\ state.tag \in {"Pressed", "ReleaseDebouncing", "WaitingForMultiClick"}
          => state.count = confirmed

\* C23: in every reachable engine state the click count is at least 1 in
\* Pressed, ReleaseDebouncing and WaitingForMultiClick, so the multi-click
\* window never closes on a count of 0.
C23_CountAtLeastOne ==
    state.tag \in {"Pressed", "ReleaseDebouncing", "WaitingForMultiClick"}
        => state.count >= 1

\* C24: a press that returns before the release debounce has elapsed (a
\* release bounce) takes the engine from ReleaseDebouncing back to Pressed
\* with the click count and the original press start unchanged, so the
\* bounce neither counts as a press nor restarts the long-press timer: the
\* engine still leaves Pressed for LongPress by original press start +
\* long_press_time, and not before.
C24_ReleaseBounce ==
    [][/\ (polling /\ state.tag = "Pressed" /\ state'.tag = "ReleaseDebouncing") =>
            /\ state'.count = state.count
            /\ state'.start_time = state.start_time
       /\ (polling /\ state.tag = "ReleaseDebouncing" /\ state'.tag = "Pressed") =>
            /\ now <= state.release_start + config.debounce
            /\ state'.count = state.count
            /\ state'.start_time = state.start_time
            /\ confirmed' = confirmed
       /\ (polling /\ state.tag = "Pressed" /\ state'.tag = "LongPress") =>
            /\ now >= state.start_time + config.long_press_time
            /\ returned' = LongPressStart
       /\ (polling /\ state.tag = "Pressed" /\ now' # now) =>
            now < state.start_time + config.long_press_time]_vars

\* A press confirmed once, released and pressed again within the debounce,
\* then held: LongPressStart has come back long_press_time after the
\* confirmation of the press, with one press counted.
C24_ReleaseBounceWitness ==
    /\ hist # NoHist
    /\ Len(hist.edges) = 3
    /\ hist.edges[2] > state.start_time
    /\ hist.edges[3] > hist.edges[2]
    /\ state.tag = "LongPress"
    /\ returned = LongPressStart
    /\ confirmed = 1
    /\ now = state.start_time + config.long_press_time

(***************************************************************************)
(* C25                                                                     *)
(***************************************************************************)
\* The steps of a continuously polled engine around the multi-click window,
\* the window closing at the instant release_start + closing.
WindowSteps(closing) ==
    /\ (polling /\ state.tag = "ReleaseDebouncing"
           /\ state'.tag = "WaitingForMultiClick") =>
            /\ now = state.release_start + config.debounce
            /\ state'.release_start = state.release_start
            /\ state'.count = state.count
    /\ (polling /\ state.tag = "WaitingForMultiClick" /\ state'.tag = "Idle") =>
            /\ now = state.release_start + closing
            /\ returned' = ClickFor(state.count)
    /\ (polling /\ state.tag = "WaitingForMultiClick" /\ now' # now) =>
            now < state.release_start + closing
    /\ (polling /\ state.tag = "WaitingForMultiClick"
           /\ state'.tag = "PressDebouncing") =>
            /\ now <= state.release_start + closing
            /\ state'.count = state.count
            /\ state'.start_time = now
            /\ returned' = NoEvent

\* C25 as stated: the multi-click window is measured from the release edge:
\* with no further press the click-family event is returned at
\* release_start + multi_click_window, and a press after the release was
\* confirmed and before that instant goes on with the same count in
\* PressDebouncing.
C25_WindowFromReleaseAsStated ==
    [][WindowSteps(config.multi_click_window)]_vars

\* C25, amended: the window is measured from the release edge, and the
\* release is confirmed only debounce after that edge: the click-family
\* event is returned at release_start + max(debounce, multi_click_window),
\* and a press after the confirmation and up to that instant goes on with
\* the same count in PressDebouncing.
C25_WindowFromRelease ==
    [][WindowSteps(Max(config.debounce, config.multi_click_window))]_vars

\* Two clicks, the second press after the first release was confirmed and
\* before release + multi_click_window; DoubleClick came back
\* multi_click_window after the second release edge.
C25_WindowFromReleaseWitness ==
    /\ hist # NoHist
    /\ Len(hist.edges) = 4
    /\ hist.edges[3] > hist.edges[2] + config.debounce
    /\ hist.edges[3] < hist.edges[2] + config.multi_click_window
    /\ returned = DoubleClick
    /\ state = Idle
    /\ now = hist.edges[4] + config.multi_click_window
    /\ Len(hist.outs) = 1

(***************************************************************************)
(* C27                                                                     *)
(***************************************************************************)
\* The bus messages the adapter under study consumes in this step.
Consumed ==
    IF created /\ created' /\ Len(sub') < Len(sub)
    THEN SubSeq(sub, 1, Len(sub) - Len(sub'))
    ELSE <<>>

\* C27: when the timer wins a race, the edge-wait of the state entered next
\* has the polarity of the abandoned one, and no message the abandoned wait
\* consumed in that poll would end the next wait; a poll whose wait stays
\* pending consumes only messages that do not end it; and the keymask
\* adapter's cached mask is the last mask it consumed.
C27_CancelKeepsEdges ==
    [][/\ TimerStep =>
            /\ WaitsForPress(state') = WaitsForPress(state)
            /\ \A i \in 1..Len(Consumed) :
                  ~MsgMatches(kind, Own, Consumed[i], WaitsForPress(state'))
       /\ (polling /\ state' = state) =>
            \A i \in 1..Len(Consumed) :
                ~MsgMatches(kind, Own, Consumed[i], WaitsForPress(state))
       /\ kind = "Keypad" =>
            last_known_mask' = IF Consumed # <<>> THEN Consumed[Len(Consumed)]
                               ELSE IF created THEN last_known_mask ELSE {}]_vars

\* A keypad key pressed at instant 0 and released, then another key
\* pressed: the press-wait abandoned when the window closed consumed the
\* other key's mask, which is the cached mask, and Click came back.
C27_CancelKeepsEdgesWitness ==
    /\ kind = "Keypad"
    /\ hist # NoHist
    /\ Len(hist.edges) = 2
    /\ hist.edges[1] = 0
    /\ used.edges = 3
    /\ returned = Click
    /\ state = Idle
    /\ sub = <<>>
    /\ last_known_mask = Shl1(1)

(***************************************************************************)
(* C29                                                                     *)
(***************************************************************************)
IsPrefix(a, b) == Len(a) <= Len(b) /\ SubSeq(b, 1, Len(a)) = a

\* The events of the two buttons so far are the same sequence, one of the
\* two possibly not yet as far as the other.
SameEvents == IsPrefix(twin.mine, twin.outs) \/ IsPrefix(twin.outs, twin.mine)

\* Dropping the pending call leaves state, configuration and count as they
\* are, the next call finds them so, and the state changes only in a poll
\* in which the edge-wait or the timer of the race has resolved.
DropFrame ==
    /\ (twin'.dropped /\ ~twin.dropped) =>
            (state' = state /\ config' = config /\ confirmed' = confirmed)
    /\ (~polling /\ polling') =>
            (state' = state /\ config' = config /\ confirmed' = confirmed)
    /\ state' # state =>
            (polling /\ (PollWait.resolved \/ TimerReady(state, now, config)))

\* C29 as stated: dropping a pending next_event leaves state, count and
\* timestamps as they were, the state changes only when a race resolves,
\* and when the key did not move between the drop and the next call the
\* events returned are those of a button whose call was never dropped.
C29_DropAsStated ==
    /\ [][DropFrame]_vars
    /\ []((twin.on /\ ~twin.excused) => SameEvents)

\* C29, amended: as stated, except for a call dropped in PressDebouncing and
\* resumed after the debounce has run out: the press is then confirmed at
\* the instant of the later call and the long-press time counted from it.
C29_Drop ==
    /\ [][DropFrame]_vars
    /\ []((twin.on /\ ~twin.excused /\ ~twin.late) => SameEvents)

\* A call dropped in ReleaseDebouncing and resumed, with no edge in
\* between, after the multi-click window had closed: Click came back from
\* the later call, as it had from the call never dropped.
C29_DropWitness ==
    /\ twin.on
    /\ ~twin.excused
    /\ ~twin.late
    /\ used.op.name = "drop"
    /\ used.op.state.tag = "ReleaseDebouncing"
    /\ returned = Click
    /\ twin.mine = <<Click>>
    /\ twin.outs = <<Click>>
    /\ now > used.op.state.release_start + Max(config.debounce, config.multi_click_window)

(***************************************************************************)
(* C26                                                                     *)
(***************************************************************************)
\* C26: the keypad's decoder loop paces its reads as the ADC scan loop
\* does: between every two consecutive raw reads the filter's
\* inter_sample_delay is invoked, whether or not the earlier read produced
\* a filtered value.
C26_SamePacing ==
    lab.op = "run" =>
        \A i \in 1..(Len(lab.log) - 1) :
            lab.log[i] = "read" => lab.log[i + 1] = "inter_sample_delay"

(***************************************************************************)
(* C28                                                                     *)
(***************************************************************************)
\* The clicks state s holds that are complete, their release confirmed:
\* the count of WaitingForMultiClick and of the PressDebouncing it hands
\* the count to, and in Pressed and ReleaseDebouncing the count less the
\* press going on.
Pending(s) ==
    CASE s.tag \in {"WaitingForMultiClick", "PressDebouncing"} -> s.count
      [] s.tag \in {"Pressed", "ReleaseDebouncing"} -> s.count - 1
      [] OTHER -> 0

\* The number of clicks a click-family event reports, 0 for any other event.
ClicksReported(event) ==
    CASE event.name = "Click" -> 1
      [] event.name = "DoubleClick" -> 2
      [] event.name = "MultipleClick" -> event.count
      [] OTHER -> 0

\* The step lets go of complete clicks and returns no click-family event
\* that reports them.
DropsClicks ==
    /\ Pending(state) >= 1
    /\ Pending(state') < Pending(state)
    /\ ~(returned' # returned /\ ClicksReported(returned') >= Pending(state))

C31_PublishedIsDecoded ==
    (lab.op = "decode" /\ lab.value # None) =>
        lab.published = <<lab.decoder[lab.value[1]]>>

====
